---- MODULE Spec2Model ----
(***************************************************************************)
(* Model of the classification tree viewer emitted by                      *)
(* scripts/generate-classification-viewer.js: the lookup maps, the tree    *)
(* DOM (one .tree-node element per node), selection, the detail pane, the  *)
(* search filter and its debounce timer.                                   *)
(*                                                                         *)
(* Strings that the code inspects character by character (ids, display     *)
(* codes, names, search terms) are sequences of one-character strings.     *)
(* Tree elements are numbered 1..N in document order, which is the         *)
(* depth-first order in which buildMaps and renderTree visit the nodes.    *)
(***************************************************************************)
EXTENDS Integers, Sequences, FiniteSets, TLC

VARIABLES
    treeData,       \* the embedded forest (const treeData)
    nodeMap,        \* id -> node (element index of the node object)
    parentMap,      \* id -> parent id
    selectedNode,   \* <<>> for null, <<id>> otherwise
    expanded,       \* per .tree-node element: class 'expanded'
    selectedEls,    \* elements whose .tree-node-content has class 'selected'
    searchHidden,   \* elements with class 'search-hidden'
    searchMatch,    \* elements with class 'search-match'
    detail,         \* what the detail pane shows
    searchValue,    \* searchInput.value
    focused,        \* document.activeElement === searchInput
    searchTimeout,  \* the timer handle variable, 0 while undefined
    pending,        \* timers scheduled and neither fired nor cleared
    lastOp,         \* history: the handler that ran last and its argument
    baseline,       \* history: expanded/hidden flags before the last filter pass
    evalsSinceInput,\* history: timer callbacks run since the last input event
    inputsSinceEval,\* history: input events since the last timer callback
    theme,          \* document.body.dataset.theme, "none" while unset
    stored,         \* localStorage item 'theme', "none" while absent
    storage,        \* the host's storage: "ok", "full" (setItem throws) or
                    \* "denied" (every access throws)
    phase,          \* "unloaded", "indexed" (buildMaps done), "ready" (script
                    \* ran to its end) or "crashed" (script aborted by a throw)
    argv,           \* generator: process.argv.slice(2)
    fileContent,    \* generator: what the input path holds: no file, text
                    \* that is no JSON, or the value JSON.parse returns
    fsWritable,     \* generator: whether the file system accepts writes
    pc,             \* generator: the next step of main, "exited" at the end
    sourceData,     \* generator: const sourceData
    transformed,    \* generator: what transformData returned
    exitCode,       \* generator: exit code of the process, -1 while it runs
    dirExists,      \* generator: the output folder exists
    indexHtml,      \* generator: index.html in the output folder
    carouselDom,    \* site script: which parts of .hero-carousel the page has
    currentSlide,   \* site script: let currentSlide
    autoplayInterval,\* site script: let autoplayInterval, 0 while undefined
    intervals,      \* site script: the interval timers set and not cleared
    nextIntervalId, \* site script: the handle the next setInterval returns
    hovering        \* site script: the pointer is over .hero-carousel

vars == <<treeData, nodeMap, parentMap, selectedNode, expanded, selectedEls,
          searchHidden, searchMatch, detail, searchValue, focused,
          searchTimeout, pending, lastOp, baseline, evalsSinceInput,
          inputsSinceEval, theme, stored, storage, phase,
          argv, fileContent, fsWritable, pc, sourceData, transformed,
          exitCode, dirExists, indexHtml,
          carouselDom, currentSlide, autoplayInterval, intervals,
          nextIntervalId, hovering>>

\* the hero carousel of the site's pages (js/main.js)
carousel == <<carouselDom, currentSlide, autoplayInterval, intervals,
              nextIntervalId, hovering>>

\* the generator process and the file system it works on
generator == <<argv, fileContent, fsWritable, pc, sourceData, transformed,
               exitCode, dirExists, indexHtml>>

\* the theme and the progress of the page script
page == <<theme, stored, storage, phase>>

(***************************************************************************)
(* Bounds                                                                  *)
(***************************************************************************)
\* timer handles the host may hand out
MaxTimerId == 2
\* input events counted within one burst; longer bursts count as this many
MaxBurst == 2

\* nodes of the largest forest the indices are built over
MaxNodes == 4
\* nesting depth of the item lists given to the transform
MaxDepth == 3
\* interval timers the carousel sets in one visit of the page
MaxIntervals == 4

TimerIds == 1..MaxTimerId

(***************************************************************************)
(* Strings                                                                 *)
(***************************************************************************)
\* a character of the class \s (and of those trim removes)
IsSpace(c) == c \in {" ", "\t"}

\* String.prototype.toLowerCase, one character
LowerChar(c) ==
    CASE c = "A" -> "a"
      [] c = "B" -> "b"
      [] c = "X" -> "x"
      [] c = "Y" -> "y"
      [] c = "R" -> "r"
      [] c = "N" -> "n"
      [] c = "S" -> "s"
      [] OTHER -> c

toLowerCase(s) == [i \in 1..Len(s) |-> LowerChar(s[i])]

RECURSIVE trimStart(_)
trimStart(s) ==
    IF s # <<>> /\ IsSpace(Head(s)) THEN trimStart(Tail(s)) ELSE s

RECURSIVE trimEnd(_)
trimEnd(s) ==
    IF s # <<>> /\ IsSpace(s[Len(s)]) THEN trimEnd(SubSeq(s, 1, Len(s) - 1)) ELSE s

\* String.prototype.trim
trim(s) == trimEnd(trimStart(s))

\* String.prototype.includes
includes(s, t) ==
    \E i \in 0..(Len(s) - Len(t)) : SubSeq(s, i + 1, i + Len(t)) = t

\* variant: the character class holds whitespace only
replaceChar_KeepHyphen(c) == IF IsSpace(c) THEN "_" ELSE c

\* one character under /[\s-]/ -> '_'
replaceChar(c) == IF IsSpace(c) \/ c = "-" THEN "_" ELSE c

\* variant: the pattern is /[\s-]+/g, one underscore per run
NormalizeId_Collapse(s) ==
    LET RECURSIVE go(_, _)
        go(rest, inRun) ==
            IF rest = <<>> THEN <<>>
            ELSE IF replaceChar(Head(rest)) = "_" /\ Head(rest) # "_"
                 THEN (IF inRun THEN <<>> ELSE <<"_">>) \o go(Tail(rest), TRUE)
                 ELSE <<Head(rest)>> \o go(Tail(rest), FALSE)
    IN go(s, FALSE)

\* id.replace(/[\s-]/g, '_'): the flag g replaces every single match
NormalizeId(s) == [i \in 1..Len(s) |-> replaceChar(s[i])]

(***************************************************************************)
(* Forests                                                                 *)
(***************************************************************************)
\* one canonical node as transformItems emits it
MakeNode(ID, Name, Description) ==
    [id          |-> NormalizeId(ID),
     id_display  |-> ID,
     name        |-> trim(Name),
     description |-> IF Description # <<>> THEN Description
                     ELSE Name \o <<" classification item.">>]

\* A -> [A1 -> [A1a], A2]
ForestA ==
    [par   |-> <<0, 1, 2, 1>>,
     nodes |-> << MakeNode(<<"A">>, <<"R">>, <<"root">>),
                  MakeNode(<<"A", "1">>, <<"X">>, <<>>),
                  MakeNode(<<"A", "1", "a">>, <<"B">>, <<"leaf">>),
                  MakeNode(<<"A", "2">>, <<"Y">>, <<>>) >>]

\* two roots: B -> [B-1], A2
ForestB ==
    [par   |-> <<0, 1, 0>>,
     nodes |-> << MakeNode(<<"B">>, <<"X">>, <<>>),
                  MakeNode(<<"B", "-", "1">>, <<" ", "Y">>, <<"inner">>),
                  MakeNode(<<"A", "2">>, <<"R">>, <<>>) >>]

\* two source IDs that normalise to the same id: A-1 -> [B], A 1
ForestDup ==
    [par   |-> <<0, 1, 0>>,
     nodes |-> << MakeNode(<<"A", "-", "1">>, <<"X">>, <<>>),
                  MakeNode(<<"B">>, <<"Y">>, <<>>),
                  MakeNode(<<"A", " ", "1">>, <<"R">>, <<>>) >>]

Forests == {ForestA, ForestB, ForestDup}

\* ids and sizes of the forests the indices are built over
IndexIds == { <<"a">>, <<"b">>, <<"c">> }
IndexForestsOfSize(n) ==
    LET RECURSIVE chain(_, _)
        chain(par, e) == IF e = 0 THEN {0} ELSE {e} \cup chain(par, par[e])
        \* a parent array is a depth-first numbering: node 1 is a root and
        \* the parent of node i is a root marker or lies on the chain of i-1
        Preorders == { par \in [1..n -> 0..(n - 1)] :
                         /\ par[1] = 0
                         /\ \A i \in 2..n : par[i] \in chain(par, i - 1) }
    IN { [par |-> par, nodes |-> [i \in 1..n |-> MakeNode(ids[i], ids[i], <<>>)]] :
         par \in Preorders, ids \in [1..n -> IndexIds] }
IndexForests == UNION { IndexForestsOfSize(n) : n \in 1..MaxNodes }

\* contents the user may leave in the search input
Terms == { <<>>, <<" ">>, <<"a", "2">>, <<"A", "1", " ">>, <<"x">> }

\* an id no forest contains (a stale reference)
StaleId == <<"z", "z">>

Size(f) == Len(f.par)
ElsOf(f) == 1..Size(f)
IdsOf(f) == { f.nodes[e].id : e \in ElsOf(f) }
DistinctIds(f) == \A e1, e2 \in ElsOf(f) : f.nodes[e1].id = f.nodes[e2].id => e1 = e2

\* the .tree-node elements of the document (none until renderTree has run)
Els == DOMAIN expanded
idOf(e) == treeData.nodes[e].id
childrenOf(f, e) == { c \in ElsOf(f) : f.par[c] = e }
\* node.children in declaration order
childSeq(f, e) ==
    LET cs == childrenOf(f, e)
        RECURSIVE ordered(_)
        ordered(S) == IF S = {} THEN <<>>
                      ELSE LET m == CHOOSE x \in S : \A y \in S : x <= y
                           IN <<m>> \o ordered(S \ {m})
    IN ordered(cs)

RECURSIVE ancestorsOf(_, _)
\* the .tree-node elements on the parentElement chain of element e
ancestorsOf(f, e) ==
    IF f.par[e] = 0 THEN {} ELSE {f.par[e]} \cup ancestorsOf(f, f.par[e])

descendantsOf(f, e) == { d \in ElsOf(f) : e \in ancestorsOf(f, d) }

\* data-level attribute of the element, 0 for a root
levelOf(f, e) == Cardinality(ancestorsOf(f, e))

(***************************************************************************)
(* The generator (a Node script): parsed JSON, transformData,              *)
(* transformItems, countItems                                              *)
(*                                                                         *)
(* A parsed JSON value is a record [t, v]: its type and its content.       *)
(* "undef" is what the access of an absent property yields.                *)
(***************************************************************************)
Undef == [t |-> "undef", v |-> 0]
Null == [t |-> "null", v |-> 0]
Str(s) == [t |-> "str", v |-> s]
Num(n) == [t |-> "num", v |-> n]
Arr(a) == [t |-> "arr", v |-> a]
Obj(r) == [t |-> "obj", v |-> r]
\* an object with one property
Obj1(name, value) == Obj(<< <<name, value>> >>)

\* the truth value of x in `x || d` and `!x`
Truthy(x) ==
    CASE x.t \in {"undef", "null"} -> FALSE
      [] x.t = "str" -> x.v # <<>>
      [] x.t = "num" -> x.v # 0
      [] OTHER -> TRUE

\* x || d
OrElse(x, d) == IF Truthy(x) THEN x ELSE d

\* x?.[0]
Index0(x) ==
    CASE x.t = "arr" -> IF x.v # <<>> THEN x.v[1] ELSE Undef
      [] x.t = "str" -> IF x.v # <<>> THEN Str(<<x.v[1]>>) ELSE Undef
      [] OTHER -> Undef

\* x?.name, and x.name for an x that is neither null nor undefined; the
\* content of an object is the sequence of its <<name, value>> pairs
Prop(x, name) ==
    IF x.t = "obj" /\ \E i \in 1..Len(x.v) : x.v[i][1] = name
    THEN x.v[CHOOSE i \in 1..Len(x.v) : x.v[i][1] = name][2]
    ELSE Undef

\* the outcome of a call: a thrown error or a returned value
Thrown(e) == [thrown |-> TRUE, error |-> e]
Returned(x) == [thrown |-> FALSE, value |-> x]

\* variant: the children are not transformed
childItems_None(item) == Arr(<<>>)

\* line 79: item.Children?.[0]?.Item || []
childItems(item) == OrElse(Prop(Index0(Prop(item, "Children")), "Item"), Arr(<<>>))

\* line 87: `${name} classification item.`
defaultDescription(name) == name \o <<" classification item.">>

RECURSIVE transformItems(_), transformItem(_)
\* the callback of items.map (lines 75-89).  item.ID on null or undefined,
\* id.replace on an id that is no string and name.trim on a name that is no
\* string throw a TypeError.
transformItem(item) ==
    IF item.t \in {"undef", "null"} THEN Thrown("TypeError")
    ELSE LET id == OrElse(Index0(Prop(item, "ID")), Str(<<>>))
             name == OrElse(Index0(Prop(item, "Name")), Str(<<>>))
             description == OrElse(Index0(Prop(item, "Description")), Str(<<>>))
         IN IF id.t # "str" \/ name.t # "str" THEN Thrown("TypeError")
            ELSE LET kids == transformItems(childItems(item))
                 IN IF kids.thrown THEN kids
                    ELSE Returned(
                           [id          |-> NormalizeId(id.v),
                            id_display  |-> id.v,
                            name        |-> trim(name.v),
                            description |-> IF Truthy(description) THEN description.v
                                            ELSE defaultDescription(name.v),
                            children    |-> kids.value])

\* transformItems (lines 73-90)
transformItems(items) ==
    IF ~Truthy(items) \/ items.t # "arr" THEN Returned(<<>>)
    ELSE LET rs == [i \in 1..Len(items.v) |-> transformItem(items.v[i])]
         IN IF \E i \in 1..Len(rs) : rs[i].thrown
            THEN rs[CHOOSE i \in 1..Len(rs) :
                       rs[i].thrown /\ \A j \in 1..(i - 1) : ~rs[j].thrown]
            ELSE Returned([i \in 1..Len(rs) |-> rs[i].value])

\* line 64: system.Items?.[0]?.Item || []
itemsOfSystem(system) == OrElse(Prop(Index0(Prop(system, "Items")), "Item"), Arr(<<>>))

\* transformData (lines 51-68)
transformData(data) ==
    IF data.t \in {"undef", "null"} THEN Thrown("TypeError")
    ELSE LET system == Index0(Prop(Index0(Prop(Prop(data, "BuildingInformation"),
                                               "Classification")), "System"))
         IN IF ~Truthy(system)
            THEN Thrown("Invalid JSON structure - cannot find System")
            ELSE LET r == transformItems(itemsOfSystem(system))
                 IN IF r.thrown THEN r
                    ELSE Returned(
                           [systemInfo |->
                              [name |-> OrElse(Index0(Prop(system, "Name")), Str(<<"Unknown">>)),
                               version |-> OrElse(Index0(Prop(system, "EditionVersion")), Str(<<>>)),
                               description |-> OrElse(Index0(Prop(system, "Description")), Str(<<>>)),
                               source |-> OrElse(Index0(Prop(system, "Source")), Str(<<>>))],
                            treeData |-> r.value])

\* variant: only the top level is counted
countItems_TopLevel(items) == Len(items)

\* countItems (lines 95-103)
countItems(items) ==
    LET RECURSIVE count(_)
        count(its) ==
            LET RECURSIVE sum(_)
                sum(i) == IF i > Len(its) THEN 0
                          ELSE count(its[i].children) + sum(i + 1)
            IN Len(its) + sum(1)
    IN count(items)

(***************************************************************************)
(* The generator: its inputs and main                                      *)
(***************************************************************************)
\* the keys of systemConfigs (lines 13-46) with their titles
systemConfigs ==
    [k \in { <<"u","n","i","c","l","a","s","s">>, <<"o","m","n","i","c","l","a","s","s">>,
             <<"u","n","i","f","o","r","m","a","t">>, <<"n","b","s">> } |->
       CASE k = <<"u","n","i","c","l","a","s","s">> -> Str(<<"Uniclass 2015">>)
         [] k = <<"o","m","n","i","c","l","a","s","s">> -> Str(<<"OmniClass">>)
         [] k = <<"u","n","i","f","o","r","m","a","t">> -> Str(<<"UniFormat II">>)
         [] OTHER -> Str(<<"NBS Create">>)]

\* property names every object inherits from Object.prototype (those the
\* inputs below can spell)
ObjectPrototypeKeys ==
    { <<"c","o","n","s","t","r","u","c","t","o","r">>,
      <<"t","o","S","t","r","i","n","g">> }

\* systemConfigs[key] (line 907): an own property, else one inherited from
\* Object.prototype (a function, which has no title), else undefined
lookupConfig(key) ==
    IF key \in DOMAIN systemConfigs THEN Obj1("title", systemConfigs[key])
    ELSE IF key \in ObjectPrototypeKeys THEN Obj1("inherited", Str(key))
    ELSE Undef

\* the third argument as the operator may type it
KeyArgs ==
    { <<"u","n","i","c","l","a","s","s">>, <<"N","B","S">>, <<"f","o","o">>, <<>>,
      <<"c","o","n","s","t","r","u","c","t","o","r">>,
      <<"t","o","S","t","r","i","n","g">> }

\* argument lists: too short, complete, and with an extra argument
ArgLists ==
    { <<>>, <<"in.json">>, <<"in.json", "out">> }
    \cup { <<"in.json", "out", k>> : k \in KeyArgs }
    \cup { <<"in.json", "out", <<"n","b","s">>, "extra">> }

GoodArgs == <<"in.json", "out", <<"u","n","i","c","l","a","s","s">>>>

\* an object with the fields that are present (not Undef)
ItemOf(id, name, description, children) ==
    LET all == << <<"ID", id>>, <<"Name", name>>, <<"Description", description>>,
                  <<"Children", children>> >>
    IN Obj(SelectSeq(all, LAMBDA pair : pair[2].t # "undef"))

\* a document whose first System is the given value
DocumentOfSystem(system) ==
    Obj1("BuildingInformation",
         Obj1("Classification", Arr(<< Obj1("System", Arr(<<system>>)) >>)))

\* the document around the top-level items
Document(items) ==
    DocumentOfSystem(Obj(<< <<"Name", Arr(<<Str(<<"S">>)>>)>>,
                            <<"Items", Arr(<< Obj1("Item", items) >>)>> >>))

RECURSIVE WellFormedLists(_)
\* item lists of one or two siblings, nested up to the given depth; the
\* first sibling has ID "A 1", the second "B-1"
WellFormedLists(depth) ==
    IF depth = 0 THEN {}
    ELSE LET below == {Undef} \cup { Arr(<<Obj1("Item", l)>>) : l \in WellFormedLists(depth - 1) }
             first == { ItemOf(Arr(<<Str(<<"A", " ", "1">>)>>), Arr(<<Str(<<"X">>)>>),
                               Arr(<<Str(<<"d">>)>>), ch) : ch \in below }
             second == { ItemOf(Arr(<<Str(<<"B", "-", "1">>)>>), Arr(<<Str(<<" ", "Y">>)>>),
                                Undef, ch) : ch \in below }
         IN { Arr(<<n>>) : n \in first } \cup { Arr(<<n, m>>) : n \in first, m \in second }

\* one item in every combination of present, absent and malformed fields
FieldIDs ==
    { Undef, Arr(<<>>), Arr(<<Str(<<"A", " ", "-", " ", "1">>)>>),
      Arr(<<Str(<<"A", "\t", "-", "-", "1">>)>>), Arr(<<Str(<<>>)>>),
      Arr(<<Num(7)>>), Str(<<"A", "B">>), Arr(<<Arr(<<Str(<<"A">>)>>)>>) }
FieldNames ==
    { Undef, Arr(<<Str(<<"X">>)>>), Arr(<<Str(<<" ", "Y", "\t">>)>>), Arr(<<Num(3)>>) }
FieldDescriptions == { Undef, Arr(<<Str(<<"d">>)>>), Arr(<<Str(<<>>)>>) }
FieldChildren ==
    { Undef, Str(<<"x">>), Arr(<<>>), Arr(<< Obj1("Other", Num(1)) >>),
      Arr(<< Obj1("Item", ItemOf(Arr(<<Str(<<"C">>)>>), Undef, Undef, Undef)) >>),
      Arr(<< Obj1("Item", Arr(<<ItemOf(Arr(<<Str(<<"C">>)>>), Undef, Undef, Undef)>>)) >>) }
FieldLists ==
    { Arr(<<ItemOf(id, name, d, ch)>>) :
        id \in FieldIDs, name \in FieldNames, d \in FieldDescriptions, ch \in FieldChildren }

\* item lists with an element that is no object
BrokenLists ==
    { Arr(<<Null>>), Arr(<<Num(5)>>),
      Arr(<<ItemOf(Arr(<<Str(<<"A">>)>>), Undef, Undef, Undef), Null>>) }

\* documents whose containers are missing or of another type
BrokenDocuments ==
    { Null,
      Obj1("Other", Num(1)),
      Obj1("BuildingInformation", Obj1("Classification", Arr(<<>>))),
      Obj1("BuildingInformation",
           Obj1("Classification", Arr(<< Obj1("System", Arr(<<>>)) >>))),
      DocumentOfSystem(Str(<<"x">>)),
      DocumentOfSystem(Obj1("Name", Arr(<<Str(<<"S">>)>>))),
      DocumentOfSystem(Obj1("Items", Arr(<<>>))),
      DocumentOfSystem(Obj1("Items", Arr(<< Obj1("Other", Num(1)) >>))),
      Document(ItemOf(Arr(<<Str(<<"A">>)>>), Undef, Undef, Undef)),
      Document(Arr(<<>>)) }

\* items whose IDs differ only in the kind of separator: A-1 -> [B], A 1, A_1
SeparatorLists ==
    LET item(id, ch) == ItemOf(Arr(<<Str(id)>>), Arr(<<Str(<<"X">>)>>), Undef, ch)
        b == Arr(<<Obj1("Item", Arr(<<item(<<"B">>, Undef)>>))>>)
    IN { Arr(<<item(<<"A", "-", "1">>, b), item(<<"A", " ", "1">>, Undef)>>),
         Arr(<<item(<<"A", "_", "1">>, Undef), item(<<"A", "\t", "1">>, b)>>),
         Arr(<<item(<<"A", "1">>, b), item(<<"A", "-", "1">>, Undef)>>) }

Documents ==
    { Document(l) : l \in WellFormedLists(MaxDepth) \cup FieldLists \cup BrokenLists
                            \cup SeparatorLists }
    \cup BrokenDocuments

\* what the input path may hold
Missing == [t |-> "missing", v |-> 0]
Invalid == [t |-> "invalid", v |-> 0]
FileContents == {Missing, Invalid} \cup Documents

\* the smallest well-formed document
SmallDocument ==
    Document(Arr(<<ItemOf(Arr(<<Str(<<"A", " ", "1">>)>>), Arr(<<Str(<<"X">>)>>),
                          Arr(<<Str(<<"d">>)>>), Undef)>>))

NoOutput == [written |-> FALSE]

\* the process ends: process.exit(code), an uncaught exception (code 1) or
\* the return of main (code 0)
exit(code) ==
    /\ exitCode' = code
    /\ pc' = "exited"

\* lines 894-913: the argument count and the system key are tested
GenValidate ==
    /\ pc = "main"
    /\ IF Len(argv) < 3 THEN exit(1)
       ELSE IF ~Truthy(lookupConfig(toLowerCase(argv[3]))) THEN exit(1)
       ELSE pc' = "read" /\ UNCHANGED exitCode
    /\ UNCHANGED <<argv, fileContent, fsWritable, sourceData, transformed,
                   dirExists, indexHtml>>
    /\ UNCHANGED <<carousel, page, treeData, nodeMap, parentMap, selectedNode, expanded,
                   selectedEls, searchHidden, searchMatch, detail, searchValue,
                   focused, searchTimeout, pending, lastOp, baseline,
                   evalsSinceInput, inputsSinceEval>>

\* line 916: JSON.parse(fs.readFileSync(inputFile, 'utf8')); both calls
\* throw, and nothing catches
GenRead ==
    /\ pc = "read"
    /\ IF fileContent.t \in {"missing", "invalid"}
       THEN exit(1) /\ UNCHANGED sourceData
       ELSE sourceData' = fileContent /\ pc' = "transform" /\ UNCHANGED exitCode
    /\ UNCHANGED <<argv, fileContent, fsWritable, transformed, dirExists, indexHtml>>
    /\ UNCHANGED <<carousel, page, treeData, nodeMap, parentMap, selectedNode, expanded,
                   selectedEls, searchHidden, searchMatch, detail, searchValue,
                   focused, searchTimeout, pending, lastOp, baseline,
                   evalsSinceInput, inputsSinceEval>>

\* lines 919-922: transformData(sourceData), countItems for the log line
GenTransform ==
    /\ pc = "transform"
    /\ \E r \in {transformData(sourceData)} :
         /\ transformed' = r
         /\ IF r.thrown THEN exit(1) ELSE pc' = "mkdir" /\ UNCHANGED exitCode
    /\ UNCHANGED <<argv, fileContent, fsWritable, sourceData, dirExists, indexHtml>>
    /\ UNCHANGED <<carousel, page, treeData, nodeMap, parentMap, selectedNode, expanded,
                   selectedEls, searchHidden, searchMatch, detail, searchValue,
                   focused, searchTimeout, pending, lastOp, baseline,
                   evalsSinceInput, inputsSinceEval>>

\* lines 925-927: the output folder is created unless it exists
GenMkdir ==
    /\ pc = "mkdir"
    /\ IF dirExists THEN pc' = "write" /\ UNCHANGED <<exitCode, dirExists>>
       ELSE IF fsWritable THEN dirExists' = TRUE /\ pc' = "write" /\ UNCHANGED exitCode
       ELSE exit(1) /\ UNCHANGED dirExists
    /\ UNCHANGED <<argv, fileContent, fsWritable, sourceData, transformed, indexHtml>>
    /\ UNCHANGED <<carousel, page, treeData, nodeMap, parentMap, selectedNode, expanded,
                   selectedEls, searchHidden, searchMatch, detail, searchValue,
                   focused, searchTimeout, pending, lastOp, baseline,
                   evalsSinceInput, inputsSinceEval>>

\* lines 929-938: generateHTML (its counts, lines 109-110, and the embedded
\* tree, line 621), writeFileSync, then main returns
GenWrite ==
    /\ pc = "write"
    /\ IF fsWritable
       THEN /\ indexHtml' = [written |-> TRUE,
                             title |-> Prop(lookupConfig(toLowerCase(argv[3])), "title"),
                             totalItems |-> countItems(transformed.value.treeData),
                             topLevelCount |-> Len(transformed.value.treeData),
                             treeData |-> transformed.value.treeData]
            /\ exit(0)
       ELSE exit(1) /\ UNCHANGED indexHtml
    /\ UNCHANGED <<argv, fileContent, fsWritable, sourceData, transformed, dirExists>>
    /\ UNCHANGED <<carousel, page, treeData, nodeMap, parentMap, selectedNode, expanded,
                   selectedEls, searchHidden, searchMatch, detail, searchValue,
                   focused, searchTimeout, pending, lastOp, baseline,
                   evalsSinceInput, inputsSinceEval>>

\* the generator is not running: the page at hand was generated earlier
GeneratorDone ==
    /\ argv = <<>>
    /\ fileContent = Missing
    /\ fsWritable = TRUE
    /\ pc = "exited"
    /\ sourceData = Undef
    /\ transformed = Thrown("none")
    /\ exitCode = 0
    /\ dirExists = TRUE
    /\ indexHtml = NoOutput

(***************************************************************************)
(* The hero carousel of the site's pages (js/main.js, lines 150-245)       *)
(***************************************************************************)
\* the slides of the carousel: slide-0-bg, slide-1-bg, slide-2-bg (line 181)
SlideCount == 3

\* the parts of .hero-carousel a page may have: the two arrows (lines 208,
\* 215) and the indicators (line 222)
CarouselDoms == [prev : BOOLEAN, next : BOOLEAN, indicators : BOOLEAN]

\* goToSlide (lines 162-186): the index wrapped around
goToSlide(index) ==
    IF index < 0 THEN SlideCount - 1
    ELSE IF index >= SlideCount THEN 0
    ELSE index

\* variant: the timer held is left running
stopAutoplay_Skipped(timers) == timers

\* stopAutoplay (lines 201-205): clearInterval of the handle held, if any;
\* the variable keeps the handle
stopAutoplay(timers) ==
    IF autoplayInterval # 0 THEN timers \ {autoplayInterval} ELSE timers

\* no page with a carousel is open
NoCarousel ==
    /\ carouselDom = [prev |-> FALSE, next |-> FALSE, indicators |-> FALSE]
    /\ currentSlide = 0
    /\ autoplayInterval = 0
    /\ intervals = {}
    /\ nextIntervalId = 1
    /\ hovering = FALSE

(***************************************************************************)
(* buildMaps                                                               *)
(***************************************************************************)
\* Map.prototype.set
MapSet(m, k, v) == [x \in (DOMAIN m) \cup {k} |-> IF x = k THEN v ELSE m[x]]

EmptyMap == [x \in {} |-> 0]

\* variant: only the top level is indexed (no descent into node.children)
setNode_TopLevel(m, f, i) == IF f.par[i] = 0 THEN MapSet(m, f.nodes[i].id, i) ELSE m

\* line 630: nodeMap.set(node.id, node)
setNode(m, f, i) == MapSet(m, f.nodes[i].id, i)

\* variant: the entry is written without the test of parent, a root
\* getting an entry with no id in it
setParent_Unguarded(m, f, i) ==
    MapSet(m, f.nodes[i].id, IF f.par[i] # 0 THEN f.nodes[f.par[i]].id ELSE <<>>)

\* line 631: if (parent) parentMap.set(node.id, parent.id)
setParent(m, f, i) ==
    IF f.par[i] # 0 THEN MapSet(m, f.nodes[i].id, f.nodes[f.par[i]].id) ELSE m

\* buildMaps visits the nodes depth first, i.e. in the order 1..Size(f)
RECURSIVE buildNodeMap(_, _, _)
buildNodeMap(f, i, m) ==
    IF i > Size(f) THEN m
    ELSE buildNodeMap(f, i + 1, setNode(m, f, i))

RECURSIVE buildParentMap(_, _, _)
buildParentMap(f, i, m) ==
    IF i > Size(f) THEN m
    ELSE buildParentMap(f, i + 1, setParent(m, f, i))

\* variant: the top level is rendered open
renderTree_RootsOpen(f) == [e \in ElsOf(f) |-> f.par[e] = 0]

\* renderTree (lines 640-678): one element per node, className
\* 'tree-node level-N', so no element carries 'expanded'
renderTree(f) == [e \in ElsOf(f) |-> FALSE]

(***************************************************************************)
(* Helpers of the viewer                                                   *)
(***************************************************************************)
\* element.classList.toggle('expanded', shouldExpand) on one element
toggleNode(exp, e, force) == [exp EXCEPT ![e] = force]

\* variant: the class is flipped whatever the second argument
shouldExpand_AlwaysFlip(exp, e, expand) == ~exp[e]

\* line 681: expand is <<>> for the default null, <<b>> for a forced value
shouldExpand(exp, e, expand) == IF expand # <<>> THEN expand[1] ELSE ~exp[e]

\* document.querySelector('.tree-node[data-id="..."]'): first in document order
querySelectorById(id) ==
    LET S == { e \in Els : idOf(e) = id }
    IN IF S = {} THEN 0 ELSE CHOOSE e \in S : \A o \in S : e <= o

\* the loop of getPath (lines 770-773): unshift each parent id
RECURSIVE getPathFrom(_, _)
getPathFrom(path, current) ==
    IF current \in DOMAIN parentMap
    THEN getPathFrom(<<parentMap[current]>> \o path, parentMap[current])
    ELSE path

\* variant: the path starts empty, so the node itself is left out
getPath_Ancestors(nodeId) == getPathFrom(<<>>, nodeId)

\* getPath (lines 767-775): the path starts as [nodeId]
getPath(nodeId) == getPathFrom(<<nodeId>>, nodeId)

\* variant: only the direct children are counted
countDescendants_Direct(e) == Len(childSeq(treeData, e))

\* countDescendants (lines 777-780): reduce over node.children of
\* 1 + countDescendants(child)
countDescendants(e) ==
    LET RECURSIVE count(_)
        count(n) ==
            LET cs == childSeq(treeData, n)
                RECURSIVE sum(_)
                sum(s) == IF s = <<>> THEN 0 ELSE 1 + count(Head(s)) + sum(Tail(s))
            IN IF cs = <<>> THEN 0 ELSE sum(cs)
    IN count(e)

NoDetail ==
    [shown |-> FALSE, code |-> <<>>, name |-> <<>>, description |-> <<>>,
     statChildren |-> 0, statDescendants |-> 0, statLevel |-> 0,
     breadcrumb |-> <<>>, hierarchy |-> <<>>, children |-> <<>>]

\* the detail pane after showDetail(nodeId)
showDetail(nodeId) ==
    IF nodeId \notin DOMAIN nodeMap THEN detail
    ELSE LET e == nodeMap[nodeId]
             node == treeData.nodes[e]
             path == getPath(nodeId)
             kids == childSeq(treeData, e)
         IN [shown |-> TRUE,
             code |-> node.id_display,
             name |-> node.name,
             description |-> IF node.description # <<>> THEN node.description
                             ELSE <<"No description available.">>,
             statChildren |-> Len(kids),
             statDescendants |-> countDescendants(e),
             statLevel |-> Len(path),
             breadcrumb |-> path,
             hierarchy |-> path,
             children |-> [i \in 1..Len(kids) |-> idOf(kids[i])]]

\* variant: the node's text is compared without toLowerCase
matches_CaseSensitive(e, lowerTerm) ==
    \/ includes(treeData.nodes[e].id_display, lowerTerm)
    \/ includes(treeData.nodes[e].name, lowerTerm)

\* the test of lines 807-808 and 824-825 on one node
matches(e, lowerTerm) ==
    \/ includes(toLowerCase(treeData.nodes[e].id_display), lowerTerm)
    \/ includes(toLowerCase(treeData.nodes[e].name), lowerTerm)

RECURSIVE parentChain(_)
\* the ids added by the while loop of lines 811-814
parentChain(id) ==
    IF id \in DOMAIN parentMap
    THEN {parentMap[id]} \cup parentChain(parentMap[id])
    ELSE {}

matchingIdsOf(lowerTerm) ==
    UNION { {id} \cup parentChain(id) :
            id \in { k \in DOMAIN nodeMap : matches(nodeMap[k], lowerTerm) } }

\* CSS: .tree-node.search-hidden, .tree-children, .tree-node.expanded > .tree-children
displayed(e) ==
    /\ e \notin searchHidden
    /\ \A a \in ancestorsOf(treeData, e) : a \notin searchHidden /\ expanded[a]

(***************************************************************************)
(* selectNode                                                              *)
(***************************************************************************)
\* variant: line 688 missing, the old mark is never removed
markSelected_KeepOld(sel, nodeEl) == IF nodeEl # 0 THEN sel \cup {nodeEl} ELSE sel

\* line 688 followed by line 692: the elements marked selected afterwards
markSelected(sel, nodeEl) == IF nodeEl # 0 THEN {nodeEl} ELSE {}

\* variant: accordion behaviour, every node off the ancestor chain is closed
expandParents_Accordion(exp, nodeEl) ==
    IF nodeEl = 0 THEN exp
    ELSE [e \in DOMAIN exp |-> e \in ancestorsOf(treeData, nodeEl)]

\* lines 695-701: toggleNode(parent, true) along the parentElement chain
expandParents(exp, nodeEl) ==
    IF nodeEl = 0 THEN exp
    ELSE [e \in DOMAIN exp |-> IF e \in ancestorsOf(treeData, nodeEl) THEN TRUE ELSE exp[e]]

selectNode(nodeId) ==
    LET nodeEl == querySelectorById(nodeId)
    IN /\ selectedEls' = markSelected(selectedEls, nodeEl)
       /\ expanded' = expandParents(expanded, nodeEl)
       /\ selectedNode' = <<nodeId>>
       /\ detail' = showDetail(nodeId)

NoBaseline == [set |-> FALSE, expanded |-> <<>>, hidden |-> {}]

Op(name, id, el) == [op |-> name, id |-> id, el |-> el]

\* the public select(nodeId), also reached with a stale id
Select(nodeId) ==
    /\ selectNode(nodeId)
    /\ lastOp' = Op("select", nodeId, 0)
    /\ baseline' = NoBaseline
    /\ UNCHANGED <<carousel, generator, page, treeData, nodeMap, parentMap, searchHidden, searchMatch,
                   searchValue, focused, searchTimeout, pending, evalsSinceInput, inputsSinceEval>>

\* click on the .tree-node-content of element e (lines 663-666)
ClickNode(e) ==
    /\ displayed(e)
    /\ selectNode(idOf(e))
    /\ lastOp' = Op("select", idOf(e), e)
    /\ baseline' = NoBaseline
    /\ UNCHANGED <<carousel, generator, page, treeData, nodeMap, parentMap, searchHidden, searchMatch,
                   searchValue, focused, searchTimeout, pending, evalsSinceInput, inputsSinceEval>>

\* click on the i-th breadcrumb segment or hierarchy item (lines 731, 739)
ClickBreadcrumb(i) ==
    /\ detail.shown
    /\ i \in 1..Len(detail.breadcrumb)
    /\ selectNode(detail.breadcrumb[i])
    /\ lastOp' = Op("select", detail.breadcrumb[i], 0)
    /\ baseline' = NoBaseline
    /\ UNCHANGED <<carousel, generator, page, treeData, nodeMap, parentMap, searchHidden, searchMatch,
                   searchValue, focused, searchTimeout, pending, evalsSinceInput, inputsSinceEval>>

\* click on the i-th entry of the children grid (line 753)
ClickChild(i) ==
    /\ detail.shown
    /\ i \in 1..Len(detail.children)
    /\ selectNode(detail.children[i])
    /\ lastOp' = Op("select", detail.children[i], 0)
    /\ baseline' = NoBaseline
    /\ UNCHANGED <<carousel, generator, page, treeData, nodeMap, parentMap, searchHidden, searchMatch,
                   searchValue, focused, searchTimeout, pending, evalsSinceInput, inputsSinceEval>>

(***************************************************************************)
(* toggle and the expand/collapse controls                                 *)
(***************************************************************************)
\* click on the toggle of element e (lines 668-672): toggleNode(nodeEl)
ClickToggle(e) ==
    /\ childrenOf(treeData, e) # {}
    /\ expanded' = toggleNode(expanded, e, shouldExpand(expanded, e, <<>>))
    /\ lastOp' = Op("toggle", <<>>, e)
    /\ baseline' = NoBaseline
    /\ UNCHANGED <<carousel, generator, page, treeData, nodeMap, parentMap, selectedNode, selectedEls,
                   searchHidden, searchMatch, detail, searchValue, focused,
                   searchTimeout, pending, evalsSinceInput, inputsSinceEval>>

\* toggleNode(nodeEl, expand) called on one element, with or without a
\* forced value (lines 680-685)
ToggleNode(e, expand) ==
    /\ expanded' = toggleNode(expanded, e, shouldExpand(expanded, e, expand))
    /\ lastOp' = Op("toggle", expand, e)
    /\ baseline' = NoBaseline
    /\ UNCHANGED <<carousel, generator, page, treeData, nodeMap, parentMap, selectedNode, selectedEls,
                   searchHidden, searchMatch, detail, searchValue, focused,
                   searchTimeout, pending, evalsSinceInput, inputsSinceEval>>

\* expandAll, collapseAll, expandLevel1, expandLevel2 (lines 834-852)
Control(name) ==
    /\ name \in {"expandAll", "collapseAll", "expandLevel1", "expandLevel2"}
    /\ expanded' = [e \in Els |->
                      CASE name = "expandAll" -> TRUE
                        [] name = "collapseAll" -> FALSE
                        [] name = "expandLevel1" -> levelOf(treeData, e) < 1
                        [] OTHER -> levelOf(treeData, e) < 2]
    /\ lastOp' = Op(name, <<>>, 0)
    /\ baseline' = NoBaseline
    /\ UNCHANGED <<carousel, generator, page, treeData, nodeMap, parentMap, selectedNode, selectedEls,
                   searchHidden, searchMatch, detail, searchValue, focused,
                   searchTimeout, pending, evalsSinceInput, inputsSinceEval>>

(***************************************************************************)
(* search                                                                  *)
(***************************************************************************)
\* variant: the early return of line 802 taken before the classes are removed
clearFilter_Keep(S) == S

\* lines 794-796: classList.remove('search-hidden', 'search-match') on all
clearFilter(S) == {}

\* variant: the children of a node on a match path are revealed as well
hiddenBy_KeepChildren(matchingIds) ==
    { e \in Els : /\ idOf(e) \notin matchingIds
                  /\ \/ treeData.par[e] = 0
                     \/ idOf(treeData.par[e]) \notin matchingIds }

\* line 820: the elements that receive 'search-hidden'
hiddenBy(matchingIds) == { e \in Els : idOf(e) \notin matchingIds }

\* lines 823-826: the elements that receive 'search-match'
matchedBy(matchingIds, lowerTerm) ==
    { e \in Els : idOf(e) \in matchingIds /\ matches(nodeMap[idOf(e)], lowerTerm) }

\* the flags left by search(term).  Each intermediate value (lowerTerm,
\* matchingIds, the matched elements) is bound once, as the code computes it.
search(term) ==
    CHOOSE r \in
      { IF lowerTerm = <<>>
        THEN [hidden |-> clearFilter(searchHidden),
              match |-> clearFilter(searchMatch),
              expanded |-> expanded]
        ELSE CHOOSE q \in
               { [hidden |-> clearFilter(searchHidden) \cup hiddenBy(matchingIds),
                  match |-> clearFilter(searchMatch)
                            \cup matchedBy(matchingIds, lowerTerm),
                  expanded |-> [e \in Els |->
                                  IF e \in matchedBy(matchingIds, lowerTerm)
                                  THEN toggleNode(expanded, e, TRUE)[e]
                                  ELSE expanded[e]]]
                 : matchingIds \in {matchingIdsOf(lowerTerm)} } : TRUE
        : lowerTerm \in {trim(toLowerCase(term))} } : TRUE

\* variant: the class list of the whole row is reset, 'selected' included
keepSelected_Reset(sel) == {}

\* lines 794-796 remove 'search-hidden' and 'search-match' from the
\* .tree-node elements only: the 'selected' marks on .tree-node-content stay
keepSelected(sel) == sel

\* variant: the walk over nodeMap drops every entry it visits
forEachNode_Deleting(m) == EmptyMap

\* line 806: nodeMap.forEach with a callback that only reads the map
forEachNode(m) == m

applySearch(term) ==
    \E r \in {search(term)} :
       /\ nodeMap' = forEachNode(nodeMap)
       /\ selectedEls' = keepSelected(selectedEls)
       /\ searchHidden' = r.hidden
       /\ searchMatch' = r.match
       /\ expanded' = r.expanded
       /\ baseline' = [set |-> TRUE, expanded |-> expanded, hidden |-> searchHidden]

(***************************************************************************)
(* debounce                                                                *)
(***************************************************************************)
\* variant: line 787 missing
clearTimeout_Missing(p, handle) == p

\* clearTimeout(handle)
clearTimeout(p, handle) == p \ {handle}

\* variant: the callback is never scheduled
setTimeout_Dropped(p, id) == p

\* setTimeout(callback, 200) returning handle id
setTimeout(p, id) == p \cup {id}

\* the handle the host gives a new timer: one no active timer carries.  Which
\* one is the host's choice; handles are only compared for identity, so the
\* least free one stands for all of them.
freshTimerId(p) ==
    IF TimerIds \ p = {} THEN 0
    ELSE CHOOSE id \in TimerIds \ p : \A o \in TimerIds \ p : id <= o

\* the input listener (lines 786-789); the user leaves v in the input
Input(v) ==
    /\ v \in Terms
    /\ LET cleared == clearTimeout(pending, searchTimeout)
           id == freshTimerId(cleared)
       IN /\ id \in TimerIds
          /\ pending' = setTimeout(cleared, id)
          /\ searchTimeout' = id
    /\ searchValue' = v
    /\ focused' = TRUE
    /\ evalsSinceInput' = 0
    /\ inputsSinceEval' = IF inputsSinceEval < MaxBurst THEN inputsSinceEval + 1
                          ELSE inputsSinceEval
    \* el: the handle this event cancelled, 0 when none was pending
    /\ lastOp' = Op("input", v, IF searchTimeout \in pending THEN searchTimeout ELSE 0)
    /\ baseline' = NoBaseline
    /\ UNCHANGED <<carousel, generator, page, treeData, nodeMap, parentMap, selectedNode, selectedEls,
                   expanded, searchHidden, searchMatch, detail>>

\* the callback of line 788 runs: search(searchInput.value)
TimerFire(id) ==
    /\ id \in pending
    /\ pending' = pending \ {id}
    /\ applySearch(searchValue)
    /\ evalsSinceInput' = evalsSinceInput + 1
    /\ inputsSinceEval' = 0
    \* el: the number of input events this evaluation answers
    /\ lastOp' = Op("search", searchValue, inputsSinceEval)
    /\ UNCHANGED <<carousel, generator, page, treeData, parentMap, selectedNode,
                   detail, searchValue, focused, searchTimeout>>

(***************************************************************************)
(* keyboard shortcuts                                                      *)
(***************************************************************************)
\* keydown '/' (lines 877-880)
KeySlash ==
    /\ phase = "ready"
    /\ ~focused
    /\ focused' = TRUE
    /\ lastOp' = Op("slash", <<>>, 0)
    /\ baseline' = NoBaseline
    /\ UNCHANGED <<carousel, generator, page, treeData, nodeMap, parentMap, selectedNode, selectedEls,
                   expanded, searchHidden, searchMatch, detail, searchValue,
                   searchTimeout, pending, evalsSinceInput, inputsSinceEval>>

\* variant: the handler leaves the text in the input
clearedValue_Kept(v) == v

\* line 882: searchInput.value = ''
clearedValue(v) == <<>>

\* keydown 'Escape' (lines 881-885)
KeyEscape ==
    /\ phase = "ready"
    /\ searchValue' = clearedValue(searchValue)
    /\ applySearch(<<>>)
    /\ focused' = FALSE
    /\ lastOp' = Op("escape", <<>>, 0)
    /\ UNCHANGED <<carousel, generator, page, treeData, parentMap, selectedNode,
                   detail, searchTimeout, pending, evalsSinceInput, inputsSinceEval>>

(***************************************************************************)
(* Specification of the running viewer: the state right after the page     *)
(* script has run to its end with working storage, then any user events.   *)
(* The theme buttons and the page load itself are in SpecPage.             *)
(***************************************************************************)
Init ==
    /\ treeData \in Forests
    /\ nodeMap = buildNodeMap(treeData, 1, EmptyMap)
    /\ parentMap = buildParentMap(treeData, 1, EmptyMap)
    /\ selectedNode = <<>>
    /\ expanded = renderTree(treeData)
    /\ selectedEls = {}
    /\ searchHidden = {}
    /\ searchMatch = {}
    /\ detail = NoDetail
    /\ searchValue = <<>>
    /\ focused = FALSE
    /\ searchTimeout = 0
    /\ pending = {}
    /\ lastOp = Op("init", <<>>, 0)
    /\ baseline = NoBaseline
    /\ evalsSinceInput = 0
    /\ inputsSinceEval = 0
    /\ theme = "light"
    /\ stored = "light"
    /\ storage = "ok"
    /\ phase = "ready"
    /\ GeneratorDone
    /\ NoCarousel

Next ==
    \/ \E id \in IdsOf(treeData) \cup {StaleId} : Select(id)
    \/ \E e \in Els : ClickNode(e)
    \/ \E i \in 1..Size(treeData) : ClickBreadcrumb(i)
    \/ \E i \in 1..Size(treeData) : ClickChild(i)
    \/ \E e \in Els : ClickToggle(e)
    \/ \E name \in {"expandAll", "collapseAll", "expandLevel1", "expandLevel2"} : Control(name)
    \/ \E v \in Terms : Input(v)
    \/ \E id \in TimerIds : TimerFire(id)
    \/ KeySlash
    \/ KeyEscape

Spec == Init /\ [][Next]_vars

\* the tree alone: toggleNode on single elements, with and without a forced
\* value, next to the clicks and the controls that change expanded flags
NextTree ==
    \/ \E e \in Els, expand \in {<<>>, <<TRUE>>, <<FALSE>>} : ToggleNode(e, expand)
    \/ \E e \in Els : ClickToggle(e)
    \/ \E e \in Els : ClickNode(e)
    \/ \E name \in {"expandAll", "collapseAll", "expandLevel1", "expandLevel2"} : Control(name)

SpecTree == Init /\ [][NextTree]_vars

\* the search box alone: typing, the timer callback and the two shortcuts
NextSearchBox ==
    \/ \E v \in Terms : Input(v)
    \/ \E id \in TimerIds : TimerFire(id)
    \/ KeySlash
    \/ KeyEscape

\* the host runs every timer that is not cleared
SpecSearchBox ==
    Init /\ [][NextSearchBox]_vars /\ \A id \in TimerIds : WF_vars(TimerFire(id))

(***************************************************************************)
(* The page: the script run at load, the theme buttons, a reload           *)
(***************************************************************************)
\* what the storage key may hold when the page is opened
StoredValues == {"none", "light", "dark", "blue"}
StorageModes == {"ok", "full", "denied"}

\* the document before its script has run
Unloaded ==
    /\ nodeMap = EmptyMap
    /\ parentMap = EmptyMap
    /\ selectedNode = <<>>
    /\ expanded = <<>>
    /\ selectedEls = {}
    /\ searchHidden = {}
    /\ searchMatch = {}
    /\ detail = NoDetail
    /\ searchValue = <<>>
    /\ focused = FALSE
    /\ searchTimeout = 0
    /\ pending = {}
    /\ lastOp = Op("open", <<>>, 0)
    /\ baseline = NoBaseline
    /\ evalsSinceInput = 0
    /\ inputsSinceEval = 0
    /\ theme = "none"
    /\ phase = "unloaded"

\* lines 624-637: the two maps are created and buildMaps(treeData) fills them
BuildMaps ==
    /\ phase = "unloaded"
    /\ nodeMap' = buildNodeMap(treeData, 1, EmptyMap)
    /\ parentMap' = buildParentMap(treeData, 1, EmptyMap)
    /\ phase' = "indexed"
    /\ lastOp' = Op("buildMaps", <<>>, 0)
    /\ UNCHANGED <<carousel, generator, treeData, selectedNode, expanded, selectedEls, searchHidden,
                   searchMatch, detail, searchValue, focused, searchTimeout,
                   pending, baseline, evalsSinceInput, inputsSinceEval,
                   theme, stored, storage>>

\* line 869: localStorage.getItem('theme') || 'light'
savedTheme(item) == IF item = "none" THEN "light" ELSE item

\* variant: the preference is written under a key that is never read
setItem_OtherKey(item, t) == item

\* line 862: localStorage.setItem('theme', theme) on working storage
setItem(item, t) == t

\* the rest of the script (lines 783-886): the listeners of the search box,
\* of the controls and of the theme buttons are registered, then init reads
\* the saved theme (869), applies it (870), renders the tree (873) and
\* registers the keyboard shortcuts (876).  A throw of the storage ends the
\* script at that line.
InitPage ==
    /\ phase = "indexed"
    /\ \/ /\ storage = "denied"
          /\ phase' = "crashed"
          /\ UNCHANGED <<theme, stored, expanded>>
       \/ /\ storage = "full"
          /\ theme' = savedTheme(stored)
          /\ phase' = "crashed"
          /\ UNCHANGED <<stored, expanded>>
       \/ /\ storage = "ok"
          /\ theme' = savedTheme(stored)
          /\ stored' = setItem(stored, savedTheme(stored))
          /\ expanded' = renderTree(treeData)
          /\ phase' = "ready"
    /\ lastOp' = Op("init", <<>>, 0)
    /\ UNCHANGED <<carousel, generator, treeData, nodeMap, parentMap, selectedNode, selectedEls,
                   searchHidden, searchMatch, detail, searchValue, focused,
                   searchTimeout, pending, baseline, evalsSinceInput,
                   inputsSinceEval, storage>>

\* click on a theme button (lines 858-866); the listeners exist from line
\* 866 on, whether or not init has completed
SetTheme(t) ==
    /\ phase \in {"ready", "crashed"}
    /\ theme' = t
    /\ stored' = IF storage = "ok" THEN setItem(stored, t) ELSE stored
    /\ lastOp' = Op("setTheme", <<t>>, 0)
    /\ UNCHANGED <<carousel, generator, treeData, nodeMap, parentMap, selectedNode, expanded,
                   selectedEls, searchHidden, searchMatch, detail, searchValue,
                   focused, searchTimeout, pending, baseline, evalsSinceInput,
                   inputsSinceEval, storage, phase>>

\* the page is opened again: the document and the script state start over,
\* the stored item stays, the host's storage may behave differently
Reload ==
    /\ phase \in {"ready", "crashed"}
    /\ nodeMap' = EmptyMap
    /\ parentMap' = EmptyMap
    /\ selectedNode' = <<>>
    /\ expanded' = <<>>
    /\ selectedEls' = {}
    /\ searchHidden' = {}
    /\ searchMatch' = {}
    /\ detail' = NoDetail
    /\ searchValue' = <<>>
    /\ focused' = FALSE
    /\ searchTimeout' = 0
    /\ pending' = {}
    /\ lastOp' = Op("reload", <<>>, 0)
    /\ baseline' = NoBaseline
    /\ evalsSinceInput' = 0
    /\ inputsSinceEval' = 0
    /\ theme' = "none"
    /\ phase' = "unloaded"
    /\ storage' \in StorageModes
    /\ UNCHANGED <<carousel, generator, treeData, stored>>

InitPageOpened ==
    /\ treeData \in Forests
    /\ stored \in StoredValues
    /\ storage \in StorageModes
    /\ Unloaded
    /\ GeneratorDone
    /\ NoCarousel

NextPage ==
    \/ BuildMaps
    \/ InitPage
    \/ \E t \in {"light", "dark"} : SetTheme(t)
    \/ Reload
    \/ \E e \in Els : ClickNode(e)
    \/ \E e \in Els : ClickToggle(e)

SpecPage == InitPageOpened /\ [][NextPage]_vars

\* every operation of the running viewer at once: the events of Spec, the
\* theme buttons and toggleNode with a forced value
NextViewer ==
    \/ Next
    \/ \E t \in {"light", "dark"} : SetTheme(t)
    \/ \E e \in Els, expand \in {<<TRUE>>, <<FALSE>>} : ToggleNode(e, expand)

\* the viewer of a forest with two roots, with or without a repeated id
InitViewer == Init /\ treeData \in {ForestB, ForestDup}

SpecViewer == InitViewer /\ [][NextViewer]_vars

\* buildMaps alone, over every forest of up to MaxNodes nodes
InitIndex ==
    /\ treeData \in IndexForests
    /\ stored = "none"
    /\ storage = "ok"
    /\ Unloaded
    /\ GeneratorDone
    /\ NoCarousel

NextIndex == BuildMaps

SpecIndex == InitIndex /\ [][NextIndex]_vars

(***************************************************************************)
(* The hero carousel: its listeners (js/main.js, lines 196-242) and the    *)
(* specification of a visit of a page that has one                         *)
(***************************************************************************)
\* the variables of the viewer and of the generator, which the site script
\* does not touch
CarouselFrame ==
    UNCHANGED <<generator, page, treeData, nodeMap, parentMap, selectedNode,
                expanded, selectedEls, searchHidden, searchMatch, detail,
                searchValue, focused, searchTimeout, pending, baseline,
                evalsSinceInput, inputsSinceEval, carouselDom>>

\* startAutoplay (lines 196-199): stopAutoplay, then setInterval
startAutoplay ==
    /\ nextIntervalId <= MaxIntervals
    /\ intervals' = stopAutoplay(intervals) \cup {nextIntervalId}
    /\ autoplayInterval' = nextIntervalId
    /\ nextIntervalId' = nextIntervalId + 1

\* lines 208-213: click on the previous arrow
ClickPrev ==
    /\ carouselDom.prev
    /\ currentSlide' = goToSlide(currentSlide - 1)
    /\ startAutoplay
    /\ lastOp' = Op("click-prev", <<>>, 0)
    /\ UNCHANGED hovering
    /\ CarouselFrame

\* lines 215-220: click on the next arrow
ClickNext ==
    /\ carouselDom.next
    /\ currentSlide' = goToSlide(currentSlide + 1)
    /\ startAutoplay
    /\ lastOp' = Op("click-next", <<>>, 0)
    /\ UNCHANGED hovering
    /\ CarouselFrame

\* lines 222-227: click on indicator i
ClickIndicator(i) ==
    /\ carouselDom.indicators
    /\ currentSlide' = goToSlide(i)
    /\ startAutoplay
    /\ lastOp' = Op("click-indicator", <<>>, i)
    /\ UNCHANGED hovering
    /\ CarouselFrame

\* line 230: mouseenter on the carousel calls stopAutoplay
MouseEnter ==
    /\ ~hovering
    /\ hovering' = TRUE
    /\ intervals' = stopAutoplay(intervals)
    /\ lastOp' = Op("mouseenter", <<>>, 0)
    /\ UNCHANGED <<currentSlide, autoplayInterval, nextIntervalId>>
    /\ CarouselFrame

\* line 231: mouseleave calls startAutoplay
MouseLeave ==
    /\ hovering
    /\ hovering' = FALSE
    /\ startAutoplay
    /\ lastOp' = Op("mouseleave", <<>>, 0)
    /\ UNCHANGED currentSlide
    /\ CarouselFrame

\* lines 234-238: keydown ArrowLeft anywhere in the document
KeyArrowLeft ==
    /\ currentSlide' = goToSlide(currentSlide - 1)
    /\ startAutoplay
    /\ lastOp' = Op("key-left", <<>>, 0)
    /\ UNCHANGED hovering
    /\ CarouselFrame

\* lines 238-241: keydown ArrowRight anywhere in the document
KeyArrowRight ==
    /\ currentSlide' = goToSlide(currentSlide + 1)
    /\ startAutoplay
    /\ lastOp' = Op("key-right", <<>>, 0)
    /\ UNCHANGED hovering
    /\ CarouselFrame

\* line 198: an interval timer that is set fires and calls nextSlide
AutoAdvance ==
    /\ intervals # {}
    /\ currentSlide' = goToSlide(currentSlide + 1)
    /\ lastOp' = Op("auto-advance", <<>>, 0)
    /\ UNCHANGED <<autoplayInterval, intervals, nextIntervalId, hovering>>
    /\ CarouselFrame

\* the page has run the script: slide 0 is shown and line 245 has started
\* the autoplay; no viewer is part of the page
InitCarousel ==
    /\ carouselDom \in CarouselDoms
    /\ currentSlide = 0
    /\ autoplayInterval = 1
    /\ intervals = {1}
    /\ nextIntervalId = 2
    /\ hovering = FALSE
    /\ treeData = ForestA
    /\ stored = "none"
    /\ storage = "ok"
    /\ Unloaded
    /\ GeneratorDone

NextCarousel ==
    \/ ClickPrev
    \/ ClickNext
    \/ \E i \in 0..(SlideCount - 1) : ClickIndicator(i)
    \/ MouseEnter
    \/ MouseLeave
    \/ KeyArrowLeft
    \/ KeyArrowRight
    \/ AutoAdvance

SpecCarousel == InitCarousel /\ [][NextCarousel]_vars

(***************************************************************************)
(* Specification of the generator: one run of main on any argument list,   *)
(* input file and file system state.  No page is open.                     *)
(***************************************************************************)
InitGenerator ==
    /\ \/ argv \in ArgLists /\ fileContent \in {Missing, Invalid, SmallDocument}
       \/ argv = GoodArgs /\ fileContent \in FileContents
    /\ NoCarousel
    /\ fsWritable \in BOOLEAN
    /\ dirExists \in BOOLEAN
    /\ pc = "main"
    /\ sourceData = Undef
    /\ transformed = Thrown("none")
    /\ exitCode = -1
    /\ indexHtml = NoOutput
    /\ treeData = ForestA
    /\ stored = "none"
    /\ storage = "ok"
    /\ Unloaded

NextGenerator ==
    \/ GenValidate
    \/ GenRead
    \/ GenTransform
    \/ GenMkdir
    \/ GenWrite

SpecGenerator == InitGenerator /\ [][NextGenerator]_vars

TypeOK ==
    /\ treeData \in Forests
    /\ selectedEls \subseteq Els
    /\ searchHidden \subseteq Els
    /\ searchMatch \subseteq Els
    /\ pending \subseteq TimerIds
    /\ searchTimeout \in {0} \cup TimerIds
    /\ searchValue \in Terms

(***************************************************************************)
(* Vocabulary of the properties                                            *)
(***************************************************************************)
SameLetter(c, d) == LowerChar(c) = LowerChar(d)

\* s contains t, letter case ignored
ContainsCI(s, t) ==
    \E i \in 0..(Len(s) - Len(t)) : \A j \in 1..Len(t) : SameLetter(s[i + j], t[j])

\* node e matches term t by its display code or its name
DirectMatch(e, t) ==
    \/ ContainsCI(treeData.nodes[e].id_display, t)
    \/ ContainsCI(treeData.nodes[e].name, t)

HasMatchingDescendant(e, t) ==
    \E d \in descendantsOf(treeData, e) : DirectMatch(d, t)

\* the last handler was a select with an id of nodeMap, ids being distinct
SelectedValid ==
    /\ lastOp.op = "select"
    /\ lastOp.id \in DOMAIN nodeMap
    /\ DistinctIds(treeData)

\* the last handler evaluated the filter for a term that is not blank
SearchEvaluatedNonEmpty ==
    /\ lastOp.op = "search"
    /\ trim(lastOp.id) # <<>>

\* the last handler evaluated the filter for a blank term
SearchEvaluatedEmpty ==
    /\ lastOp.op \in {"search", "escape"}
    /\ trim(lastOp.id) = <<>>

\* C1: after select(id) with an id of nodeById, in a forest with distinct
\* ids, exactly one node is marked selected, it is the node with this id,
\* and every proper ancestor of it is expanded.
C1_SelectionInvariant ==
    SelectedValid =>
        \E e \in Els :
            /\ idOf(e) = lastOp.id
            /\ selectedEls = {e}
            /\ \A a \in ancestorsOf(treeData, e) : expanded[a]

\* a node at depth 3 was selected
C1_Witness ==
    /\ SelectedValid
    /\ \E e \in selectedEls : levelOf(treeData, e) = 2 /\ idOf(e) = lastOp.id

\* C2: select(id) with an id absent from nodeById changes nothing: the
\* selected mark, selectedId, the detail pane and the expanded flags stay.
C2_StaleSelectIsNoOp ==
    [][ (lastOp'.op = "select" /\ lastOp'.id \notin DOMAIN nodeMap)
        => /\ selectedEls' = selectedEls
           /\ selectedNode' = selectedNode
           /\ detail' = detail
           /\ expanded' = expanded ]_vars

\* C3: after a non-blank search every node kept only for a matching
\* descendant is expanded and every directly matching node is displayed.
C3_MatchesDisplayed ==
    (SearchEvaluatedNonEmpty /\ DistinctIds(treeData)) =>
        LET t == trim(lastOp.id)
        IN \A e \in Els :
              /\ (e \notin searchHidden /\ ~DirectMatch(e, t)) => expanded[e]
              /\ DirectMatch(e, t) => displayed(e)

C6_ClearRestoresBaseline ==
    [][ ( /\ lastOp.op = "search"
          /\ baseline.set
          /\ baseline.hidden = {}
          /\ lastOp'.op \in {"search", "escape"}
          /\ trim(lastOp'.id) = <<>> )
        => /\ searchHidden' = baseline.hidden
           /\ expanded' = baseline.expanded ]_vars

\* C7: search with an empty or whitespace-only term leaves no node
\* filter-hidden, no node match-marked, and every expanded flag as it was
\* immediately before the call.
C7_BlankSearchClears ==
    SearchEvaluatedEmpty =>
        /\ searchHidden = {}
        /\ searchMatch = {}
        /\ baseline.set
        /\ expanded = baseline.expanded

\* a whitespace-only term evaluated while a filter was hiding nodes
C7_Witness ==
    /\ lastOp.op = "search"
    /\ lastOp.id = <<" ">>
    /\ baseline.set
    /\ baseline.hidden # {}
    /\ \E e \in Els : expanded[e]

\* C8: no node is at the same time filter-hidden and marked selected.
C8_HiddenNeverSelected == searchHidden \cap selectedEls = {}

\* C9: at most one debounce timer is pending, and right after an input
\* event the pending timer is the one that event scheduled.
C9_SingleTimer ==
    /\ Cardinality(pending) <= 1
    /\ lastOp.op = "input" => pending = {searchTimeout}

\* an input event that cancelled a pending timer
C9_Witness ==
    /\ lastOp.op = "input"
    /\ lastOp.el # 0
    /\ pending = {searchTimeout}

\* the states of C10 that hold at every moment
C10_Safety ==
    \* a timer callback evaluates the current content, once per burst
    /\ lastOp.op = "search" =>
          (lastOp.id = searchValue /\ evalsSinceInput = 1 /\ pending = {})
    /\ evalsSinceInput <= 1
    \* an input not yet evaluated has its timer pending
    /\ (searchTimeout # 0 /\ evalsSinceInput = 0) => pending = {searchTimeout}

\* C10: in a burst of input events the filter is not evaluated by the
\* events themselves; it is evaluated once, by the timer of the last event,
\* on the content the input then holds; and a pending timer does run
\* unless a further input event cancels it.
C10_Debounce ==
    /\ []C10_Safety
    /\ [][ lastOp'.op = "input"
           => /\ searchHidden' = searchHidden
              /\ searchMatch' = searchMatch
              /\ expanded' = expanded ]_vars
    /\ \A id \in TimerIds : (id \in pending) ~> (id \notin pending)

\* one evaluation that answers a burst of two or more input events
C10_Witness ==
    /\ lastOp.op = "search"
    /\ lastOp.el >= 2
    /\ trim(lastOp.id) # <<>>
    /\ searchHidden # {}

(***************************************************************************)
(* C11: a select of a valid id never collapses a node, and the only        *)
(* expanded flags it changes are those of proper ancestors of the node     *)
(* with that id; the node itself, its descendants, its siblings and        *)
(* unrelated branches keep their flags.                                    *)
(***************************************************************************)
C11_SelectFrame ==
    [][ (lastOp'.op = "select" /\ lastOp'.id \in DOMAIN nodeMap)
        => \E n \in Els :
             /\ idOf(n) = lastOp'.id
             /\ \A e \in Els :
                  /\ expanded[e] => expanded'[e]
                  /\ expanded'[e] # expanded[e] => e \in ancestorsOf(treeData, n) ]_vars

\* a valid select of a nested node has acted while an unrelated node is
\* open and a descendant-free sibling branch is closed
C11_Witness ==
    /\ lastOp.op = "select"
    /\ lastOp.id \in DOMAIN nodeMap
    /\ \E n \in selectedEls :
         /\ idOf(n) = lastOp.id
         /\ ancestorsOf(treeData, n) # {}
         /\ \E s, u \in Els \ (ancestorsOf(treeData, n) \cup {n}) :
              expanded[s] /\ ~expanded[u]

(***************************************************************************)
(* C12: for a node at depth d (a root has depth 1) of a forest with        *)
(* distinct ids, the path shown as breadcrumb and as hierarchy after a     *)
(* select of its id has exactly d entries, starts at the root, ends at the *)
(* selected node, and each entry is the parent of the next.                *)
(***************************************************************************)
C12_PathShape ==
    SelectedValid =>
        LET n == nodeMap[lastOp.id]
            p == detail.breadcrumb
        IN /\ detail.hierarchy = p
           /\ Len(p) = levelOf(treeData, n) + 1
           /\ \A i \in 1..Len(p) : p[i] \in DOMAIN nodeMap
           /\ treeData.par[nodeMap[p[1]]] = 0
           /\ p[Len(p)] = lastOp.id
           /\ \A i \in 1..(Len(p) - 1) : treeData.par[nodeMap[p[i + 1]]] = nodeMap[p[i]]

\* a node of depth 3 has been selected and its path is on display
C12_Witness ==
    /\ SelectedValid
    /\ levelOf(treeData, nodeMap[lastOp.id]) = 2
    /\ Len(detail.breadcrumb) = 3

(***************************************************************************)
(* C13: after a select of a valid id the detail statistics describe that   *)
(* node: the child count is the number of its children, the descendant     *)
(* count is the size of its subtree without the node itself, and the level *)
(* is the number of nodes on the path from its root to the node (a root    *)
(* has level 1).  In A -> [A1 -> [A1a], A2] the node A1a has 0 children    *)
(* and level 3.                                                            *)
(***************************************************************************)
C13_Stats ==
    SelectedValid =>
        LET n == nodeMap[lastOp.id]
        IN /\ detail.shown
           /\ detail.statChildren = Cardinality(childrenOf(treeData, n))
           /\ detail.statDescendants = Cardinality(descendantsOf(treeData, n))
           /\ detail.statLevel = Cardinality(ancestorsOf(treeData, n) \cup {n})
           /\ (treeData = ForestA /\ n = 3) =>
                  (detail.statChildren = 0 /\ detail.statLevel = 3)

\* a node with grandchildren is on display: its descendant count exceeds
\* its child count
C13_Witness ==
    /\ SelectedValid
    /\ detail.shown
    /\ detail.statChildren = 2
    /\ detail.statDescendants = 3
    /\ detail.statLevel = 1

\* buildMaps has run
Indexed == phase # "unloaded"

(***************************************************************************)
(* C14: when the ids of the forest are distinct, nodeMap has after         *)
(* buildMaps exactly as many entries as the forest has nodes and maps the  *)
(* id of each node to that node.                                           *)
(***************************************************************************)
C14_NodeIndex ==
    (Indexed /\ DistinctIds(treeData)) =>
        /\ Cardinality(DOMAIN nodeMap) = Size(treeData)
        /\ \A e \in ElsOf(treeData) :
             /\ treeData.nodes[e].id \in DOMAIN nodeMap
             /\ nodeMap[treeData.nodes[e].id] = e

\* the maps of a three-level forest with distinct ids have been built
C14_Witness ==
    /\ Indexed
    /\ DistinctIds(treeData)
    /\ \E e \in ElsOf(treeData) : levelOf(treeData, e) = 2
    /\ Cardinality(DOMAIN nodeMap) = 3

(***************************************************************************)
(* C15: when the ids of the forest are distinct, parentMap maps after      *)
(* buildMaps the id of every node that is not a root to the id of its      *)
(* parent, and no id of a root is a key of it.                             *)
(***************************************************************************)
C15_ParentIndex ==
    (Indexed /\ DistinctIds(treeData)) =>
        \A e \in ElsOf(treeData) :
            IF treeData.par[e] = 0
            THEN treeData.nodes[e].id \notin DOMAIN parentMap
            ELSE /\ treeData.nodes[e].id \in DOMAIN parentMap
                 /\ parentMap[treeData.nodes[e].id] = treeData.nodes[treeData.par[e]].id

\* the maps of a forest with two roots, one of them with a child, have
\* been built
C15_Witness ==
    /\ Indexed
    /\ DistinctIds(treeData)
    /\ Cardinality({ e \in ElsOf(treeData) : treeData.par[e] = 0 }) = 2
    /\ Cardinality(DOMAIN parentMap) = 1

\* the node with this id that the depth-first traversal visits last
LaterNode(id) ==
    CHOOSE e \in ElsOf(treeData) :
        /\ treeData.nodes[e].id = id
        /\ \A d \in ElsOf(treeData) : treeData.nodes[d].id = id => d <= e

RECURSIVE ChainEnds(_, _)
\* following parentMap from id arrives within n steps at an id without entry
ChainEnds(id, n) ==
    \/ id \notin DOMAIN parentMap
    \/ n > 0 /\ ChainEnds(parentMap[id], n - 1)

(***************************************************************************)
(* C16: also when two nodes share an id, the indices describe after        *)
(* buildMaps, for every id, the node of that id visited last: nodeMap      *)
(* holds that node, parentMap holds the id of its parent and has no entry  *)
(* when that node is a root; hence the parent chain of every id ends at a  *)
(* root after finitely many steps.                                         *)
(***************************************************************************)
C16_LaterNodeWins ==
    Indexed =>
        \A id \in DOMAIN nodeMap :
            LET n == LaterNode(id)
            IN /\ nodeMap[id] = n
               /\ IF treeData.par[n] = 0
                  THEN id \notin DOMAIN parentMap
                  ELSE /\ id \in DOMAIN parentMap
                       /\ parentMap[id] = treeData.nodes[treeData.par[n]].id
               /\ ChainEnds(id, Size(treeData))

\* the part of C16 about nodeMap alone
C16_NodeMapLaterWins ==
    Indexed => \A id \in DOMAIN nodeMap : nodeMap[id] = LaterNode(id)

\* the part of C16 about the parent chains alone
C16_ChainsEnd ==
    Indexed => \A id \in DOMAIN nodeMap : ChainEnds(id, Size(treeData))

(***************************************************************************)
(* C17: a toggle without forced value flips the expanded flag of its node, *)
(* a toggle with a forced value sets the flag to that value whatever it    *)
(* was (toggling to TRUE twice leaves the node expanded); the flag of      *)
(* every other node is unchanged.                                          *)
(***************************************************************************)
C17_ToggleFrame ==
    [][ lastOp'.op = "toggle"
        => LET e == lastOp'.el
               forced == lastOp'.id
           IN /\ expanded'[e] = (IF forced = <<>> THEN ~expanded[e] ELSE forced[1])
              /\ \A o \in Els \ {e} : expanded'[o] = expanded[o] ]_vars

\* a toggle forced to TRUE has acted while some other node is open and
\* another one closed
C17_Witness ==
    /\ lastOp.op = "toggle"
    /\ lastOp.id = <<TRUE>>
    /\ expanded[lastOp.el]
    /\ \E o, u \in Els \ {lastOp.el} : expanded[o] /\ ~expanded[u]

(***************************************************************************)
(* C18: with working storage, after setTheme(t) for t light or dark the    *)
(* applied theme is t and the item stored under the key is t; a load that  *)
(* finds light or dark stored applies it, and a load that finds nothing    *)
(* stored applies light.                                                   *)
(***************************************************************************)
C18_ThemeRoundTrip ==
    [][ /\ (lastOp'.op = "setTheme" /\ storage' = "ok")
            => (theme' = lastOp'.id[1] /\ stored' = lastOp'.id[1])
        /\ (phase = "indexed" /\ phase' # "indexed" /\ storage = "ok")
            => /\ stored \in {"light", "dark"} => theme' = stored
               /\ stored = "none" => theme' = "light" ]_vars

\* setTheme('dark') has acted on a page loaded with the light theme stored
\* or defaulted, and the preference is in storage
C18_Witness ==
    /\ lastOp.op = "setTheme"
    /\ lastOp.id = <<"dark">>
    /\ storage = "ok"
    /\ phase = "ready"
    /\ theme = "dark"
    /\ stored = "dark"

(***************************************************************************)
(* C19: a failure of the theme storage (the write, or the read at load,    *)
(* throwing) is not fatal: the script still runs to its end, so the tree   *)
(* is rendered and the keyboard shortcuts are registered, and a requested  *)
(* theme is still applied for the session.                                 *)
(***************************************************************************)
C19_StorageFailureNonFatal ==
    /\ lastOp.op = "init" => (phase = "ready" /\ Els = ElsOf(treeData))
    /\ lastOp.op = "setTheme" => theme = lastOp.id[1]

\* the part of C19 that holds: a theme button applies its theme for the
\* session also when the write throws
C19_ThemeAppliedAnyway ==
    (lastOp.op = "setTheme" /\ storage # "ok") => theme = lastOp.id[1]

(***************************************************************************)
(* C20: immediately after initialization every node is collapsed, no node  *)
(* is marked selected and selectedNode is null, no node is hidden by the   *)
(* filter, and the detail view is not shown.                               *)
(***************************************************************************)
C20_InitialState ==
    lastOp.op = "init" =>
        /\ \A e \in Els : ~expanded[e]
        /\ selectedEls = {}
        /\ selectedNode = <<>>
        /\ searchHidden = {}
        /\ ~detail.shown

\* the script has just run to its end on the four-node forest
C20_Witness ==
    /\ lastOp.op = "init"
    /\ phase = "ready"
    /\ Els = ElsOf(treeData)
    /\ Cardinality(Els) = 4

(***************************************************************************)
(* C21: an Escape key press leaves the search input empty and unfocused    *)
(* and no node hidden or marked as a match, in whatever state it is        *)
(* pressed; from then on the filter stays cleared through every step that  *)
(* is not an input event, the callback of a timer that was pending when    *)
(* Escape was pressed included.                                            *)
(***************************************************************************)
C21_EscapeClears ==
    [][ /\ lastOp'.op = "escape"
            => /\ searchValue' = <<>>
               /\ ~focused'
               /\ searchHidden' = {}
               /\ searchMatch' = {}
        /\ (/\ searchValue = <<>>
            /\ searchHidden = {}
            /\ searchMatch = {}
            /\ lastOp'.op # "input")
            => /\ searchValue' = <<>>
               /\ searchHidden' = {}
               /\ searchMatch' = {} ]_vars

\* the callback of a timer set by an input event has run after Escape took
\* the focus away (only Escape does), and the filter is clear
C21_Witness ==
    /\ lastOp.op = "search"
    /\ lastOp.el >= 1
    /\ ~focused
    /\ searchValue = <<>>
    /\ searchHidden = {}
    /\ searchMatch = {}

(***************************************************************************)
(* Vocabulary of the transform properties: the source document read by     *)
(* its schema (every field a one-element wrapper array, or absent)         *)
(***************************************************************************)
\* the elements of an item array, none when the value is no array
SourceList(x) == IF x.t = "arr" THEN x.v ELSE <<>>

\* the first System of the document
SourceSystem(doc) ==
    Index0(Prop(Index0(Prop(Prop(doc, "BuildingInformation"), "Classification")), "System"))

\* the top-level items of the document
SourceTop(doc) == SourceList(Prop(Index0(Prop(SourceSystem(doc), "Items")), "Item"))

\* the child items of an item
SourceChildren(item) == SourceList(Prop(Index0(Prop(item, "Children")), "Item"))

\* the field is a wrapper array around a string
Wrapped(item, field) ==
    /\ Prop(item, field).t = "arr"
    /\ Len(Prop(item, field).v) = 1
    /\ Prop(item, field).v[1].t = "str"

\* the string inside the wrapper
Unwrapped(item, field) == Prop(item, field).v[1].v

\* the field is absent
Absent(item, field) == Prop(item, field).t = "undef"

RECURSIVE SourceCount(_)
\* the number of items in a list and below it
SourceCount(items) ==
    LET RECURSIVE sum(_)
        sum(i) == IF i > Len(items) THEN 0
                  ELSE SourceCount(SourceChildren(items[i])) + sum(i + 1)
    IN Len(items) + sum(1)

RECURSIVE Mirrors(_, _)
\* nodes has one node per item, in the same order and with the same nesting
Mirrors(items, nodes) ==
    /\ Len(nodes) = Len(items)
    /\ \A i \in 1..Len(items) :
         /\ Wrapped(items[i], "ID") => nodes[i].id_display = Unwrapped(items[i], "ID")
         /\ Mirrors(SourceChildren(items[i]), nodes[i].children)

\* transformData has returned a forest for the document read
TransformReturned ==
    /\ pc \in {"mkdir", "write", "exited"}
    /\ ~transformed.thrown

\* the pairs <<item, node>> of a source list and the list made from it
RECURSIVE PairsOf(_, _)
PairsOf(items, nodes) ==
    UNION { {<<items[i], nodes[i]>>} \cup PairsOf(SourceChildren(items[i]), nodes[i].children)
            : i \in 1..Len(items) }

\* every source item together with the node produced for it
ItemNodePairs ==
    IF TransformReturned /\ Mirrors(SourceTop(sourceData), transformed.value.treeData)
    THEN PairsOf(SourceTop(sourceData), transformed.value.treeData)
    ELSE {}

(***************************************************************************)
(* C22: the forest returned by the transform has one node per source item  *)
(* at every depth, nested as in the source and in the same sibling order;  *)
(* hence countItems of the forest is the number of source items of all     *)
(* levels and the length of the forest is the number of top-level items.   *)
(***************************************************************************)
C22_ShapeMirrored ==
    TransformReturned =>
        /\ Mirrors(SourceTop(sourceData), transformed.value.treeData)
        /\ countItems(transformed.value.treeData) = SourceCount(SourceTop(sourceData))
        /\ Len(transformed.value.treeData) = Len(SourceTop(sourceData))

\* a document with two top-level items and items three levels deep has
\* been transformed
C22_Witness ==
    /\ TransformReturned
    /\ Len(transformed.value.treeData) = 2
    /\ \E i \in 1..2 :
         /\ transformed.value.treeData[i].children # <<>>
         /\ \E j \in 1..Len(transformed.value.treeData[i].children) :
              transformed.value.treeData[i].children[j].children # <<>>
    /\ countItems(transformed.value.treeData) >= 5

\* a whitespace character
White(c) == c \in {" ", "\t"}

\* t is s without its leading and trailing whitespace
Trimmed(s, t) ==
    /\ \E a \in 0..Len(s) :
         /\ a + Len(t) <= Len(s)
         /\ \A i \in 1..Len(t) : t[i] = s[a + i]
         /\ \A i \in 1..Len(s) : (i <= a \/ i > a + Len(t)) => White(s[i])
    /\ t # <<>> => (~White(t[1]) /\ ~White(t[Len(t)]))

(***************************************************************************)
(* C23: for every source item the node made from it has as id_display the  *)
(* source ID unchanged, as id the source ID with every whitespace          *)
(* character and every hyphen replaced by an underscore, and as name the   *)
(* source name without its leading and trailing whitespace.                *)
(***************************************************************************)
C23_FieldsOfNode ==
    \A p \in ItemNodePairs :
        /\ Wrapped(p[1], "ID") =>
             LET ID == Unwrapped(p[1], "ID")
             IN /\ p[2].id_display = ID
                /\ Len(p[2].id) = Len(ID)
                /\ \A i \in 1..Len(ID) :
                     p[2].id[i] = (IF White(ID[i]) \/ ID[i] = "-" THEN "_" ELSE ID[i])
        /\ Wrapped(p[1], "Name") => Trimmed(Unwrapped(p[1], "Name"), p[2].name)

\* an item whose ID holds a tab and hyphens and whose name has whitespace
\* at both ends has been transformed
C23_Witness ==
    \E p \in ItemNodePairs :
        /\ Wrapped(p[1], "ID")
        /\ Wrapped(p[1], "Name")
        /\ p[2].id_display = <<"A", "\t", "-", "-", "1">>
        /\ p[2].id = <<"A", "_", "_", "_", "1">>
        /\ Unwrapped(p[1], "Name") = <<" ", "Y", "\t">>
        /\ p[2].name = <<"Y">>

\* a character the normalisation replaces
Separator(c) == White(c) \/ c = "-"

\* the positions a..b form a maximal run of separators in s
MaximalRun(s, a, b) ==
    /\ a <= b
    /\ \A i \in a..b : Separator(s[i])
    /\ a > 1 => ~Separator(s[a - 1])
    /\ b < Len(s) => ~Separator(s[b + 1])

(***************************************************************************)
(* C24 as stated: in the id of a node a run of consecutive whitespace      *)
(* and hyphen characters of the source ID is collapsed to one separator,   *)
(* so the id is shorter than the ID by the characters that continue a run. *)
(***************************************************************************)
C24_RunsCollapsed ==
    \A p \in ItemNodePairs :
        Wrapped(p[1], "ID") =>
            LET ID == Unwrapped(p[1], "ID")
            IN Len(p[2].id) =
                 Len(ID) - Cardinality({ i \in 2..Len(ID) :
                                           Separator(ID[i]) /\ Separator(ID[i - 1]) })

(***************************************************************************)
(* C24 amended: in the id of a node every character of a run of            *)
(* whitespace and hyphen characters of the source ID is replaced by its    *)
(* own underscore: a run of n such characters yields n underscores, and    *)
(* the id is as long as the ID ("A - 1" yields "A___1").                   *)
(***************************************************************************)
C24_RunsKeptPerCharacter ==
    \A p \in ItemNodePairs :
        Wrapped(p[1], "ID") =>
            LET ID == Unwrapped(p[1], "ID")
            IN /\ Len(p[2].id) = Len(ID)
               /\ \A a, b \in 1..Len(ID) :
                    MaximalRun(ID, a, b) => \A i \in a..b : p[2].id[i] = "_"

\* the source ID "A - 1", with a run of three separators, has been
\* normalised
C24_Witness ==
    \E p \in ItemNodePairs :
        /\ Wrapped(p[1], "ID")
        /\ Unwrapped(p[1], "ID") = <<"A", " ", "-", " ", "1">>
        /\ MaximalRun(Unwrapped(p[1], "ID"), 2, 4)
        /\ p[2].id = <<"A", "_", "_", "_", "1">>

\* transformData has been called on the document read
TransformRan ==
    /\ pc \in {"mkdir", "write", "exited"}
    /\ sourceData.t # "undef"

RECURSIVE ItemsAreObjects(_)
\* every element of the list, and of the lists below it, is an object
ItemsAreObjects(items) ==
    \A i \in 1..Len(items) :
        items[i].t = "obj" /\ ItemsAreObjects(SourceChildren(items[i]))

RECURSIVE AllItems(_)
\* the items of the list and of the lists below it
AllItems(items) ==
    UNION { {items[i]} \cup AllItems(SourceChildren(items[i])) : i \in 1..Len(items) }

\* the document has its System and Items containers and its items are
\* objects; the fields of the items are arbitrary
ContainersPresent ==
    /\ SourceSystem(sourceData).t = "obj"
    /\ Prop(Index0(Prop(SourceSystem(sourceData), "Items")), "Item").t = "arr"
    /\ ItemsAreObjects(SourceTop(sourceData))

(***************************************************************************)
(* C25: whatever fields of an item are missing or malformed, the transform *)
(* does not fail; an absent ID gives the empty id, an absent name the      *)
(* empty name, an absent description "<name> classification item." with    *)
(* the name of the node, absent children an empty child list.              *)
(***************************************************************************)
C25_FieldsDefaulted ==
    (TransformRan /\ ContainersPresent) =>
        /\ ~transformed.thrown
        /\ \A p \in ItemNodePairs :
             /\ Absent(p[1], "ID") => (p[2].id = <<>> /\ p[2].id_display = <<>>)
             /\ Absent(p[1], "Name") => p[2].name = <<>>
             /\ Absent(p[1], "Description") =>
                  p[2].description = p[2].name \o <<" classification item.">>
             /\ Absent(p[1], "Children") => p[2].children = <<>>

\* the part of C25 that holds: items whose ID and Name are absent or a
\* wrapped string never make the transform fail, and absent fields get
\* their defaults, the description being built from the name as it stands
\* in the source
C25_AbsentFieldsDefaulted ==
    (TransformRan /\ ContainersPresent) =>
        /\ transformed.thrown =>
             \E item \in AllItems(SourceTop(sourceData)) :
                 \E field \in {"ID", "Name"} :
                     ~Absent(item, field) /\ ~Wrapped(item, field)
        /\ \A p \in ItemNodePairs :
             /\ Absent(p[1], "ID") => (p[2].id = <<>> /\ p[2].id_display = <<>>)
             /\ Absent(p[1], "Name") => (p[2].name = <<>>)
             /\ (Absent(p[1], "Description") /\ Wrapped(p[1], "Name")) =>
                  p[2].description = Unwrapped(p[1], "Name") \o <<" classification item.">>
             /\ Absent(p[1], "Children") => p[2].children = <<>>

\* the Items/Item container of the first System
SourceItemContainer(doc) == Prop(Index0(Prop(SourceSystem(doc), "Items")), "Item")

\* a container that is there: an object for System, an array for Item
SystemLocated(doc) == doc.t = "obj" /\ SourceSystem(doc).t = "obj"
ItemsLocated(doc) == SystemLocated(doc) /\ SourceItemContainer(doc).t = "arr"

(***************************************************************************)
(* C26: whenever the System container or its Items/Item container cannot   *)
(* be located in the document, transformData throws and returns no forest; *)
(* it never returns an empty forest instead.                               *)
(***************************************************************************)
C26_StructuralError ==
    (TransformRan /\ ~ItemsLocated(sourceData)) => transformed.thrown

\* the part of C26 that holds: a document without a System never gets a
\* forest
C26_SystemRequired ==
    (TransformRan /\ SourceSystem(sourceData).t \in {"undef", "null"}) =>
        transformed.thrown

\* the run has its three arguments and the system key, lowercased as main
\* does, is none of the four configured ones
UnknownKey == Len(argv) >= 3 /\ toLowerCase(argv[3]) \notin DOMAIN systemConfigs

\* the step ends the run with code 1 at the validation, before the input is
\* read, and touches neither the output folder nor index.html
RejectedAtValidation ==
    /\ pc = "main"
    /\ pc' = "exited"
    /\ exitCode' = 1
    /\ UNCHANGED <<sourceData, transformed, dirExists, indexHtml>>

(***************************************************************************)
(* C27: for every system key outside uniclass, omniclass, uniformat, nbs   *)
(* the generator exits with code 1 without reading the input, creating a   *)
(* directory or writing a file.                                            *)
(***************************************************************************)
C27_UnknownKeyRejected == [][UnknownKey => RejectedAtValidation]_vars

\* the part of C27 that holds: a key that names no property of
\* systemConfigs at all, own or inherited, is rejected at the validation
C27_UnresolvedKeyRejected ==
    [][(UnknownKey /\ toLowerCase(argv[3]) \notin ObjectPrototypeKeys)
          => RejectedAtValidation]_vars

\* a cause of failure of the run: too few arguments, an unknown key, an
\* input that cannot be read or parsed, a transform that throws
FailureCause ==
    \/ Len(argv) < 3
    \/ UnknownKey
    \/ fileContent.t \in {"missing", "invalid"}
    \/ transformData(fileContent).thrown

\* the validation of main has let the arguments pass
ValidationPassed == Len(argv) >= 3 /\ Truthy(lookupConfig(toLowerCase(argv[3])))

\* validation, read, parse and transform have all succeeded
AllSucceeded ==
    /\ ValidationPassed
    /\ fileContent.t \notin {"missing", "invalid"}
    /\ sourceData = fileContent
    /\ transformed = transformData(sourceData)
    /\ ~transformed.thrown

\* the run has ended in failure
RunFailed == pc = "exited" /\ exitCode # 0

(***************************************************************************)
(* C28: a run that fails (too few arguments, unknown key, unreadable       *)
(* input, invalid JSON, transform error) ends with a non-zero exit code    *)
(* and no index.html written; the output folder is created and index.html  *)
(* written only in steps taken after validation, read, parse and           *)
(* transform have all succeeded.                                           *)
(***************************************************************************)
C28_NoOutputOnFailure ==
    /\ [](FailureCause => (indexHtml = NoOutput /\ (pc = "exited" => exitCode # 0)))
    /\ [][(dirExists' # dirExists \/ indexHtml' # indexHtml)
            => (~FailureCause /\ AllSucceeded)]_vars

\* the part of C28 that holds: a run that main itself ends in failure has
\* written no index.html, every cause main detects ends the run with a
\* non-zero code, and the folder and the file are touched only after
\* validation, read, parse and transform have passed
C28_DetectedFailuresLeaveNoOutput ==
    /\ [](RunFailed => indexHtml = NoOutput)
    /\ []((FailureCause /\ ~(UnknownKey /\ ValidationPassed))
            => (indexHtml = NoOutput /\ (pc = "exited" => exitCode # 0)))
    /\ [][(dirExists' # dirExists \/ indexHtml' # indexHtml) => AllSucceeded]_vars

RECURSIVE embeddedNode(_, _)
\* the node of element e as the generator wrote it into the page (line
\* 621): the fields of the node and its children, nested
embeddedNode(f, e) ==
    LET cs == childSeq(f, e)
    IN [id          |-> f.nodes[e].id,
        id_display  |-> f.nodes[e].id_display,
        name        |-> f.nodes[e].name,
        description |-> f.nodes[e].description,
        children    |-> [i \in 1..Len(cs) |-> embeddedNode(f, cs[i])]]

\* the forest as the generator counted and embedded it
embeddedForest(f) ==
    LET roots == childSeq(f, 0)
    IN [i \in 1..Len(roots) |-> embeddedNode(f, roots[i])]

RECURSIVE SumOfOnePlus(_)
\* the sum over the elements s of 1 + countDescendants
SumOfOnePlus(s) ==
    IF s = <<>> THEN 0 ELSE 1 + countDescendants(Head(s)) + SumOfOnePlus(Tail(s))

(***************************************************************************)
(* C29: for every node of the forest countDescendants is the sum over its  *)
(* children of 1 + countDescendants(child), 0 for a leaf; countItems of    *)
(* the forest is the sum over the roots of 1 + countDescendants(root), and *)
(* the number of entries of nodeMap when the ids are distinct.             *)
(***************************************************************************)
C29_CountsAgree ==
    Indexed =>
        /\ \A e \in ElsOf(treeData) :
             /\ countDescendants(e) = SumOfOnePlus(childSeq(treeData, e))
             /\ childrenOf(treeData, e) = {} => countDescendants(e) = 0
        /\ countItems(embeddedForest(treeData)) = SumOfOnePlus(childSeq(treeData, 0))
        /\ DistinctIds(treeData) =>
             countItems(embeddedForest(treeData)) = Cardinality(DOMAIN nodeMap)

\* the maps of a forest with distinct ids, two roots and a node below one
\* of them have been built: three items, three entries
C29_Witness ==
    /\ Indexed
    /\ DistinctIds(treeData)
    /\ Len(childSeq(treeData, 0)) = 2
    /\ \E e \in ElsOf(treeData) : countDescendants(e) = 1
    /\ countItems(embeddedForest(treeData)) = 3
    /\ Cardinality(DOMAIN nodeMap) = 3

\* the handlers of manual navigation: arrows, indicators, arrow keys
NavigationOps == {"click-prev", "click-next", "click-indicator", "key-left", "key-right"}

(***************************************************************************)
(* C30: while the pointer is over the carousel (after mouseenter, before   *)
(* the next mouseleave) no auto-advance timer is set, whatever manual      *)
(* navigation happens during the hover.                                    *)
(***************************************************************************)
C30_PausedWhileHovering == hovering => intervals = {}

\* the part of C30 that holds: mouseenter leaves no timer set, at most one
\* timer is ever set, and during a hover only a manual navigation sets one
C30_PausedUntilNavigation ==
    /\ []((hovering /\ lastOp.op = "mouseenter") => intervals = {})
    /\ [](Cardinality(intervals) <= 1)
    /\ [][(hovering /\ hovering' /\ intervals = {} /\ intervals' # {})
            => lastOp'.op \in NavigationOps]_vars

(***************************************************************************)
(* C31: an evaluation of search, for any term, changes neither the         *)
(* selection nor the detail pane: selectedNode, the elements marked        *)
(* selected and the detail, breadcrumb, hierarchy and children shown are   *)
(* the same before and after, also when the selected node gets hidden.     *)
(***************************************************************************)
C31_SearchFrame ==
    [][lastOp'.op \in {"search", "escape"}
         => UNCHANGED <<selectedNode, selectedEls, detail>>]_vars

\* a search has hidden the node that is selected and on display in the
\* detail pane
C31_Witness ==
    /\ lastOp.op = "search"
    /\ selectedNode # <<>>
    /\ detail.shown
    /\ detail.breadcrumb # <<>>
    /\ \E e \in selectedEls : e \in searchHidden /\ idOf(e) = selectedNode[1]

(***************************************************************************)
(* C32: no operation of the viewer (select, toggle, search, the expand and *)
(* collapse controls, setTheme, the keyboard shortcuts) changes the        *)
(* forest, nodeMap or parentMap: node content, child order and both maps   *)
(* are in every reachable state what they were right after the load.       *)
(***************************************************************************)
C32_DataFrame ==
    /\ [][UNCHANGED <<treeData, nodeMap, parentMap>>]_vars
    /\ [](/\ nodeMap = buildNodeMap(treeData, 1, EmptyMap)
          /\ parentMap = buildParentMap(treeData, 1, EmptyMap))

\* the theme has been switched after a select, a toggle and a filter pass
\* have acted on a forest with nested nodes
C32_Witness ==
    /\ lastOp.op = "setTheme"
    /\ theme = "dark"
    /\ selectedNode # <<>>
    /\ searchHidden # {}
    /\ \E e \in Els : expanded[e]
    /\ \E id \in DOMAIN parentMap : parentMap[id] \in DOMAIN nodeMap
    /\ Cardinality(DOMAIN nodeMap) >= 2

(***************************************************************************)
(* C33: in every reachable state, selects of unknown ids included, at most *)
(* one node is marked selected, and a node that is marked selected has the *)
(* id held in selectedNode.                                                *)
(***************************************************************************)
C33_SingleSelection ==
    /\ Cardinality(selectedEls) <= 1
    /\ \A e \in selectedEls : selectedNode = <<idOf(e)>>

\* a second node has been selected after a first one, and a select of an
\* unknown id has acted in between
C33_Witness ==
    /\ lastOp.op = "select"
    /\ selectedEls # {}
    /\ \E e \in selectedEls : treeData.par[e] # 0 /\ selectedNode = <<idOf(e)>>
    /\ detail.shown
    /\ searchHidden # {}

\* a select of an unknown id has just acted on a page that showed a node
C33_StaleWitness ==
    /\ lastOp.op = "select"
    /\ lastOp.id = StaleId
    /\ selectedNode = <<StaleId>>
    /\ selectedEls = {}
    /\ detail.shown

\* the two themes of the viewer
Themes == {"light", "dark"}

(***************************************************************************)
(* C34: the theme applied and the preference persisted are light or dark   *)
(* in every reachable state of the loaded page, whatever string the        *)
(* storage key holds when the page loads.                                  *)
(***************************************************************************)
C34_ThemeIsLightOrDark ==
    phase = "ready" => (theme \in Themes /\ stored \in Themes)

\* the part of C34 that holds: once a theme button has been clicked on
\* working storage, both are light or dark; so are they after a load that
\* found nothing or one of the two in storage
C34_ButtonsGiveLightOrDark ==
    /\ [](lastOp.op = "setTheme" /\ storage = "ok"
            => (theme \in Themes /\ stored \in Themes))
    /\ [][(phase = "indexed" /\ phase' = "ready" /\ stored \in Themes \cup {"none"})
            => (theme' \in Themes /\ stored' \in Themes)]_vars

\* the term in the input is empty or white space only
BlankInput == \A i \in 1..Len(searchValue) : White(searchValue[i])

(***************************************************************************)
(* C35: whenever no debounce timer is pending, the filter applied is the   *)
(* one of the current content of the search input: the hidden nodes are    *)
(* exactly those search computes for that content, none when it is empty   *)
(* or white space only, after any interleaving of input events, timer      *)
(* callbacks and Escape presses.                                           *)
(***************************************************************************)
C35_FilterFollowsInput ==
    pending = {} =>
        /\ searchHidden = search(searchValue).hidden
        /\ BlankInput => searchHidden = {}
        /\ ~BlankInput =>
             searchHidden = { e \in Els :
                                idOf(e) \notin matchingIdsOf(trim(toLowerCase(searchValue))) }

\* the timer of a burst of input events has run on a term that hides some
\* nodes and keeps others, and no timer is left
C35_Witness ==
    /\ pending = {}
    /\ lastOp.op = "search"
    /\ lastOp.el >= 2
    /\ ~BlankInput
    /\ searchHidden # {}
    /\ searchHidden # Els

\* Escape was pressed while a timer was pending, the timer has run since
\* and found the input empty
C35_EscapeWitness ==
    /\ pending = {}
    /\ lastOp.op = "search"
    /\ ~focused
    /\ searchValue = <<>>
    /\ searchHidden = {}

\* the elements of a sequence
RangeOf(s) == { s[i] : i \in 1..Len(s) }

(***************************************************************************)
(* C36: when the node shown has the breadcrumb [p1, ..., pk], a select of  *)
(* its i-th segment selects pi and shows exactly the prefix [p1, ..., pi]; *)
(* a select of a child c from the children grid shows [p1, ..., pk, c].    *)
(***************************************************************************)
C36_BreadcrumbNavigation ==
    [][ (lastOp'.op = "select" /\ detail.shown) =>
          /\ \A i \in 1..Len(detail.breadcrumb) :
               detail.breadcrumb[i] = lastOp'.id =>
                 /\ selectedNode' = <<detail.breadcrumb[i]>>
                 /\ \E e \in selectedEls' : idOf(e) = detail.breadcrumb[i]
                 /\ detail'.code = treeData.nodes[nodeMap[detail.breadcrumb[i]]].id_display
                 /\ detail'.breadcrumb = SubSeq(detail.breadcrumb, 1, i)
          /\ lastOp'.id \in RangeOf(detail.children) =>
                 /\ selectedNode' = <<lastOp'.id>>
                 /\ detail'.breadcrumb = detail.breadcrumb \o <<lastOp'.id>> ]_vars

\* the select of a child has led to a path of three segments
C36_Witness ==
    /\ lastOp.op = "select"
    /\ detail.shown
    /\ Len(detail.breadcrumb) = 3
    /\ selectedNode = <<detail.breadcrumb[3]>>
    /\ detail.children = <<>>

RECURSIVE SourceIDs(_)
\* the IDs of the items of a list and of the lists below it, in document
\* order
SourceIDs(items) ==
    LET RECURSIVE from(_)
        from(i) == IF i > Len(items) THEN <<>>
                   ELSE <<Unwrapped(items[i], "ID")>>
                        \o SourceIDs(SourceChildren(items[i])) \o from(i + 1)
    IN from(1)

RECURSIVE NodeIds(_)
\* the ids of the nodes of a forest, in document order
NodeIds(nodes) ==
    LET RECURSIVE from(_)
        from(i) == IF i > Len(nodes) THEN <<>>
                   ELSE <<nodes[i].id>> \o NodeIds(nodes[i].children) \o from(i + 1)
    IN from(1)

\* no value occurs twice in the sequence
Pairwise(s) == \A i, j \in 1..Len(s) : s[i] = s[j] => i = j

\* every item of the document has its ID, a wrapped string
IDsPresent ==
    /\ ItemsAreObjects(SourceTop(sourceData))
    /\ \A item \in AllItems(SourceTop(sourceData)) : Wrapped(item, "ID")

(***************************************************************************)
(* C37: if the source IDs of the input are pairwise distinct, the          *)
(* normalised ids of the transformed forest are pairwise distinct.         *)
(***************************************************************************)
C37_IdsStayDistinct ==
    (TransformReturned /\ IDsPresent /\ Pairwise(SourceIDs(SourceTop(sourceData))))
        => Pairwise(NodeIds(transformed.value.treeData))

\* the part of C37 that holds: two different source IDs get the same id
\* only when they have the same length and differ only where both have a
\* white space character, a hyphen or an underscore
C37_CollisionsOnlyBySeparators ==
    (TransformReturned /\ IDsPresent) =>
        LET src == SourceIDs(SourceTop(sourceData))
            ids == NodeIds(transformed.value.treeData)
        IN /\ Len(ids) = Len(src)
           /\ \A i, j \in 1..Len(src) :
                (ids[i] = ids[j] /\ src[i] # src[j]) =>
                    /\ Len(src[i]) = Len(src[j])
                    /\ \A k \in 1..Len(src[i]) :
                         src[i][k] # src[j][k] =>
                            /\ Separator(src[i][k]) \/ src[i][k] = "_"
                            /\ Separator(src[j][k]) \/ src[j][k] = "_"

(***************************************************************************)
(* C38: for every forest, with or without repeated ids, and every id, the  *)
(* walks along parentMap in getPath and in search end: from any id an id   *)
(* without entry is reached after at most as many steps as the forest has  *)
(* nodes; parentMap has no cycle.                                          *)
(***************************************************************************)
C38_WalksTerminate ==
    Indexed =>
        \A id \in IndexIds \cup {StaleId} :
            /\ ChainEnds(id, Size(treeData))
            /\ ~\E n \in 1..Size(treeData) :
                  LET RECURSIVE back(_, _)
                      back(x, k) == IF k = 0 THEN x = id
                                    ELSE x \in DOMAIN parentMap /\ back(parentMap[x], k - 1)
                  IN back(id, n)

\* the part of C38 that holds: in a forest with distinct ids every walk
\* ends within as many steps as the node is deep
C38_WalksTerminateOnDistinctIds ==
    (Indexed /\ DistinctIds(treeData)) =>
        \A e \in ElsOf(treeData) :
            /\ ChainEnds(idOf(e), levelOf(treeData, e))
            /\ Len(getPath(idOf(e))) = levelOf(treeData, e) + 1

(***************************************************************************)
(* C39: in every reachable state of the carousel at most one auto-advance  *)
(* interval timer is set: every start of the autoplay first clears the     *)
(* timer started before, for any interleaving of manual navigation, hover  *)
(* enter and leave, and key presses.                                       *)
(***************************************************************************)
C39_SingleInterval ==
    /\ [](Cardinality(intervals) <= 1 /\ intervals \subseteq {autoplayInterval})
    /\ [][nextIntervalId' # nextIntervalId
            => (autoplayInterval \notin intervals' /\ intervals' = {autoplayInterval'})]_vars

\* the autoplay has been restarted by a navigation during a hover, after
\* two earlier starts, and one timer is set
C39_Witness ==
    /\ hovering
    /\ lastOp.op \in NavigationOps
    /\ nextIntervalId >= 4
    /\ intervals = {autoplayInterval}
    /\ autoplayInterval = nextIntervalId - 1

====
